---- MODULE Spec2Model ----
(***************************************************************************)
(* Rule-based CI/CD configuration analysis engine.                         *)
(*                                                                         *)
(*  - EnhancedRulesEngine      (src/lib/rules/rule-engine.ts)              *)
(*  - AdvancedYamlRulesEngine  (src/lib/advanced-yaml-rules.ts)            *)
(*  - analyzeCICD              (src/unnamed/part_005)                      *)
(*                                                                         *)
(* A rule's check and the regular-expression scans are functions of the    *)
(* input: an input names the rules whose patterns match it (hits), the     *)
(* rules whose check raises on it (throwing) and the traits of the raw     *)
(* text the built-in scans look for.  Every finding carries its           *)
(* provenance: the rule that produced it (rule) and the input it was       *)
(* derived from (src).                                                     *)
(***************************************************************************)
EXTENDS Integers, Sequences, FiniteSets, TLC

VARIABLES
  config,                   \* AdvancedYamlRulesEngine.config, per engine
  rawContent,               \* AdvancedYamlRulesEngine.rawContent / contentLines
  parsedYAML,               \* AdvancedYamlRulesEngine.parsedYAML
  issues,                   \* AdvancedYamlRulesEngine.issues
  optimizations,            \* AdvancedYamlRulesEngine.optimizations
  securityVulnerabilities,  \* AdvancedYamlRulesEngine.securityVulnerabilities
  enhanced,                 \* the fields of the engine's EnhancedRulesEngine
  pc,                       \* per call: where the call is suspended
  frame,                    \* per call: its arguments and locals
  result                    \* per call: what it returned (or that it rejected)

vars == <<config, rawContent, parsedYAML, issues, optimizations,
          securityVulnerabilities, enhanced, pc, frame, result>>

(***************************************************************************)
(* Bounds of the model.                                                    *)
(***************************************************************************)
MaxFindings == 2      \* findings per sink in the scoring specification
MaxCustomRules == 3   \* custom rules of a configuration
MaxVulnerabilities == 11   \* vulnerabilities in the security report specification
MaxJobs == 2          \* jobs of a document in the dependency graph specification
MaxSecretLength == 10 \* characters of a secret in the masking specification
MaxLines == 2         \* lines of a raw text in the scanning specifications
NumCalls == 2         \* concurrent calls

Engines == 1..NumCalls
Calls == 1..NumCalls

(***************************************************************************)
(* Findings.                                                               *)
(***************************************************************************)
IssueSeverities == {"critical", "error", "warning", "info"}
VulnerabilitySeverities == {"critical", "high", "medium", "low"}

Issue(severity, category, ruleId, rule, src) ==
  [severity |-> severity, category |-> category, ruleId |-> ruleId,
   rule |-> rule, src |-> src]

Optimization(impact, category, title, rule, src) ==
  [impact |-> impact, category |-> category, title |-> title,
   rule |-> rule, src |-> src]

SecurityVulnerability(severity, title, rule, src) ==
  [severity |-> severity, title |-> title, rule |-> rule, src |-> src]

(***************************************************************************)
(* The rule catalog, in registration order.                                *)
(***************************************************************************)
Rule(id, category, severity, level, platforms, sinks, vulnSeverity) ==
  [id |-> id, category |-> category, severity |-> severity, level |-> level,
   platforms |-> platforms, sinks |-> sinks, vulnSeverity |-> vulnSeverity]

HardcodedSecretsRule ==
  Rule("hardcoded-secrets", "security", "critical", "junior", {"all"},
       {"vulnerability"}, "critical")
DangerousCommandsRule ==
  Rule("dangerous-commands", "security", "error", "intermediate", {"all"},
       {"vulnerability"}, "high")
PermissionsRule ==
  Rule("permissions", "security", "warning", "beginner", {"all"},
       {"vulnerability"}, "medium")
ComplianceRule ==
  Rule("compliance-standards", "security", "warning", "expert", {"all"},
       {"issue", "optimization"}, "low")
SecurityScanningRule ==
  Rule("security-scanning", "security", "warning", "senior", {"all"},
       {"issue", "optimization"}, "low")
CachingRule ==
  Rule("caching-optimization", "performance", "info", "intermediate", {"all"},
       {"issue", "optimization"}, "low")
ParallelizationRule ==
  Rule("parallelization-analysis", "performance", "info", "senior",
       {"github-actions", "gitlab-ci"}, {"optimization"}, "low")
ResourceOptimizationRule ==
  Rule("resource-optimization", "performance", "info", "senior", {"all"},
       {"issue", "optimization"}, "low")
CostOptimizationRule ==
  Rule("cost-optimization", "cost", "info", "senior", {"all"},
       {"issue", "optimization"}, "low")
ConcurrencyRule ==
  Rule("concurrency-optimization", "cost", "info", "intermediate",
       {"github-actions"}, {"optimization"}, "low")
DocumentationRule ==
  Rule("documentation-standards", "maintainability", "info", "junior", {"all"},
       {"issue", "optimization"}, "low")
NamingConventionsRule ==
  Rule("naming-conventions", "maintainability", "info", "intermediate", {"all"},
       {"issue", "optimization"}, "low")
ComplexityRule ==
  Rule("complexity-analysis", "maintainability", "info", "senior", {"all"},
       {"issue", "optimization"}, "low")

initializeRules ==
  << HardcodedSecretsRule, DangerousCommandsRule, PermissionsRule,
     ComplianceRule, SecurityScanningRule,
     CachingRule, ParallelizationRule, ResourceOptimizationRule,
     CostOptimizationRule, ConcurrencyRule,
     DocumentationRule, NamingConventionsRule, ComplexityRule >>

RuleIds == { initializeRules[i].id : i \in 1..Len(initializeRules) }

Platforms == {"github-actions", "gitlab-ci", "bitbucket-pipelines", "unknown"}
Levels == {"junior", "intermediate", "senior", "expert", "all"}

(***************************************************************************)
(* EnhancedRulesEngine.                                                    *)
(***************************************************************************)
levels == <<"junior", "intermediate", "senior", "expert">>

\* Array.prototype.indexOf, zero-based, -1 when absent
indexOf(seq, x) ==
  IF \E i \in 1..Len(seq) : seq[i] = x
  THEN (CHOOSE i \in 1..Len(seq) :
          seq[i] = x /\ \A j \in 1..(i - 1) : seq[j] # x) - 1
  ELSE -1

matchesLevel(ruleLevel, targetLevel) ==
  IF targetLevel = "all" THEN TRUE
  ELSE indexOf(levels, ruleLevel) <= indexOf(levels, targetLevel)

matchesPlatform_any(rule, platform) == TRUE

matchesPlatform(rule, platform) ==
  "all" \in rule.platforms \/ platform \in rule.platforms

\* ParallelizationRule.analyzeGitHubParallelization: a job that needs nothing
\* or an empty list is independent; job.needs of a null job raises before
\* anything is appended
analyzeGitHubParallelization(rule, in) ==
  LET jobs == in.doc.jobs
      independentJobs == {i \in 1..Len(jobs) : jobs[i].needs.names = <<>>}
      raises == \E i \in 1..Len(jobs) : jobs[i].null
  IN [optimizations |->
        IF ~raises /\ Cardinality(independentJobs) > 1
        THEN << Optimization("low", "performance",
                             "Good parallelization detected",
                             rule.id, in.id) >>
        ELSE <<>>,
      throws |-> raises]

\* what rule.check(parsed, context) appends through the context on input in
check(rule, in, platform) ==
  LET hit == rule.id \in in.hits
      parallelization ==
        IF rule.id = "parallelization-analysis" /\ platform = "github-actions"
        THEN analyzeGitHubParallelization(rule, in)
        ELSE [optimizations |-> <<>>, throws |-> FALSE]
  IN
  [issues |->
     IF hit /\ "issue" \in rule.sinks
     THEN << Issue(rule.severity, rule.category, rule.id, rule.id, in.id) >>
     ELSE <<>>,
   optimizations |->
     parallelization.optimizations
     \o (IF hit /\ "optimization" \in rule.sinks /\ ~parallelization.throws
         THEN << Optimization("medium", rule.category, rule.id, rule.id,
                              in.id) >>
         ELSE <<>>),
   securityVulnerabilities |->
     IF hit /\ "vulnerability" \in rule.sinks
     THEN << SecurityVulnerability(rule.vulnSeverity, rule.id, rule.id, in.id) >>
     ELSE <<>>,
   throws |-> rule.id \in in.throwing \/ parallelization.throws]

\* the catch block of the forEach callback: a mutant that lets the error escape
catchRuleError_rethrow(acc, rule, in) == [acc EXCEPT !.aborted = TRUE]

\* the catch block of the forEach callback
catchRuleError(acc, rule, in) ==
  [acc EXCEPT !.issues =
     Append(@, Issue("error", "linting", "rule-error-" \o rule.id,
                     rule.id, in.id))]

\* one iteration of this.rules.forEach
executeRule(acc, rule, in, platform, level) ==
  IF matchesPlatform(rule, platform) /\ matchesLevel(rule.level, level)
  THEN LET r == check(rule, in, platform)
           appended ==
             [acc EXCEPT
                !.issues = @ \o r.issues,
                !.optimizations = @ \o r.optimizations,
                !.securityVulnerabilities = @ \o r.securityVulnerabilities,
                !.invoked = Append(@, rule.id)]
       IN IF r.throws THEN catchRuleError(appended, rule, in) ELSE appended
  ELSE acc

\* a mutant: the rules are visited from the last registered to the first
RECURSIVE forEachRule_reversed(_, _, _, _, _)
forEachRule_reversed(i, acc, in, platform, level) ==
  IF i > Len(acc.rules) \/ acc.aborted THEN acc
  ELSE forEachRule_reversed(i + 1,
                            executeRule(acc, acc.rules[Len(acc.rules) + 1 - i],
                                        in, platform, level),
                            in, platform, level)

RECURSIVE forEachRule(_, _, _, _, _)
forEachRule(i, acc, in, platform, level) ==
  IF i > Len(acc.rules) \/ acc.aborted THEN acc
  ELSE forEachRule(i + 1,
                   executeRule(acc, acc.rules[i], in, platform, level),
                   in, platform, level)

\* a mutant: the collections of the engine are not reset
executeRules_noReset(this, in, platform, level) ==
  forEachRule(1,
              [rules |-> this.rules, issues |-> this.issues,
               optimizations |-> this.optimizations,
               securityVulnerabilities |-> this.securityVulnerabilities,
               invoked |-> <<>>, aborted |-> FALSE],
              in, platform, level)

\* executeRules on the engine this: its collections are reset, then every
\* rule of this.rules is visited
executeRules(this, in, platform, level) ==
  forEachRule(1,
              [rules |-> this.rules, issues |-> <<>>, optimizations |-> <<>>,
               securityVulnerabilities |-> <<>>, invoked |-> <<>>,
               aborted |-> FALSE],
              in, platform, level)

\* the fields of a new EnhancedRulesEngine
newEnhancedRulesEngine ==
  [rules |-> initializeRules, issues |-> <<>>, optimizations |-> <<>>,
   securityVulnerabilities |-> <<>>, invoked |-> <<>>]

(***************************************************************************)
(* Inputs of an analysis: the parsed document and the raw text.            *)
(***************************************************************************)
\* the number NaN (no count and no cost of the model is negative)
NaN == -1

\* a + b and a * b of numbers that may be NaN
plus(a, b) == IF a = NaN \/ b = NaN THEN NaN ELSE a + b

times(a, b) == IF a = NaN \/ b = NaN THEN NaN ELSE a * b

\* job.needs: no such key, the name of one job, or a list of names; a job is
\* named by its place in Object.keys(parsed.jobs)
NoNeeds == [kind |-> "absent", names |-> <<>>]

NeedsString(name) == [kind |-> "string", names |-> << name >>]

NeedsList(names) == [kind |-> "list", names |-> names]

\* if (job.needs): a name and a list, the empty list too, are truthy
hasNeeds(job) == job.needs.kind # "absent"

\* null: the job's value is null (a key without content)
\* needs: job.needs; steps: how many entries job.steps holds;
\* length: job.steps.length, which is NaN (undefined, once added to a number)
\* when job.steps is a mapping and not a list
Job(null, needs, steps, length, runsOn) ==
  [null |-> null, needs |-> needs, steps |-> steps, length |-> length,
   runsOn |-> runsOn]

\* root: what the parser produced ("null", "scalar" or "object");
\* stages, scriptJobs, pipelines: how many entries the section holds (0: absent)
Doc(id, root, name, on, stages, scriptJobs, pipelines, jobs) ==
  [id |-> id, root |-> root, name |-> name, on |-> on, stages |-> stages,
   scriptJobs |-> scriptJobs, pipelines |-> pipelines, jobs |-> jobs]

\* str: typeof rawContent === "string"; len: rawContent.length;
\* traits: what the text scans find in it
Raw(id, str, len, traits) ==
  [id |-> id, str |-> str, len |-> len, traits |-> traits]

Input(doc, raw, hits, throwing) ==
  [id |-> doc.id, doc |-> doc, raw |-> raw, hits |-> hits,
   throwing |-> throwing]

\* Object.keys(parsedYAML).length === 0
isEmptyObject(doc) ==
  /\ ~doc.name /\ ~doc.on
  /\ doc.stages = 0 /\ doc.scriptJobs = 0 /\ doc.pipelines = 0
  /\ doc.jobs = <<>>

hasNullJob(doc) == \E i \in 1..Len(doc.jobs) : doc.jobs[i].null

(***************************************************************************)
(* AdvancedYamlRulesEngine: construction and the sinks.                    *)
(***************************************************************************)
DefaultMaxFileSize == 1048576

\* a custom rule: check raises, or returns `returns` issues
CustomRule(id, throws, returns) ==
  [id |-> id, throws |-> throws, returns |-> returns]

Config(security, performance, cost, maxFileSize, strictMode, customRules) ==
  [enableSecurityAnalysis |-> security,
   enablePerformanceAnalysis |-> performance,
   enableCostAnalysis |-> cost,
   maxFileSize |-> maxFileSize,
   strictMode |-> strictMode,
   customRules |-> customRules]

\* the defaults of the constructor
constructorDefaults ==
  Config(TRUE, TRUE, TRUE, DefaultMaxFileSize, FALSE, <<>>)

\* the fields reset() assigns
reset ==
  [rawContent |-> Raw(0, TRUE, 0, {}),
   parsedYAML |-> Doc(0, "object", FALSE, FALSE, 0, 0, 0, <<>>),
   issues |-> <<>>, optimizations |-> <<>>,
   securityVulnerabilities |-> <<>>]

addIssue(s, issue) == [s EXCEPT !.issues = Append(@, issue)]

addOptimization(s, optimization) ==
  [s EXCEPT !.optimizations = Append(@, optimization)]

addSecurityVulnerability(s, vulnerability) ==
  [s EXCEPT !.securityVulnerabilities = Append(@, vulnerability)]

(***************************************************************************)
(* validateInput.                                                          *)
(***************************************************************************)
validateInputThrows(in, platform) ==
  \/ in.doc.root # "object"
  \/ platform = ""
  \/ ~in.raw.str
  \/ in.raw.len = 0

validateInput(s, cfg, in, platform) ==
  LET s1 == IF cfg.maxFileSize # 0 /\ in.raw.len > cfg.maxFileSize
            THEN addIssue(s, Issue("error", "linting", "file-size-limit",
                                   "engine", in.id))
            ELSE s
  IN IF isEmptyObject(in.doc)
     THEN addIssue(s1, Issue("error", "syntax", "empty-config",
                             "engine", in.id))
     ELSE s1

(***************************************************************************)
(* Platform analyzers.  A phase that can raise yields [s, throws].         *)
(***************************************************************************)
\* a mutant: the trigger events are not looked at
GitHubActionsAnalyzer_validateStructure_nameOnly(s, in) ==
  IF ~in.doc.name
  THEN addIssue(s, Issue("warning", "maintainability",
                         "gh-missing-name", "engine", in.id))
  ELSE s

GitHubActionsAnalyzer_validateStructure(s, in) ==
  LET s1 == IF ~in.doc.name
            THEN addIssue(s, Issue("warning", "maintainability",
                                   "gh-missing-name", "engine", in.id))
            ELSE s
  IN IF ~in.doc.on
     THEN addIssue(s1, Issue("error", "linting", "gh-missing-triggers",
                             "engine", in.id))
     ELSE s1

\* for (const [jobName, job] of Object.entries(jobs)), from job i up to the
\* next await: job["runs-on"] of a null job raises, and the issues of the
\* jobs before it stay in the sink; a job with steps awaits analyzeSteps,
\* whose steps.forEach raises when the steps are not a list
RECURSIVE GitHubActionsAnalyzer_analyzeJobs(_, _, _)
GitHubActionsAnalyzer_analyzeJobs(s, in, i) ==
  IF i > Len(in.doc.jobs)
  THEN [s |-> s, throws |-> FALSE, awaiting |-> FALSE, next |-> i]
  ELSE IF in.doc.jobs[i].null
  THEN [s |-> s, throws |-> TRUE, awaiting |-> FALSE, next |-> i]
  ELSE LET s1 == IF ~in.doc.jobs[i].runsOn
                 THEN addIssue(s, Issue("error", "linting",
                                        "gh-missing-runs-on", "engine", in.id))
                 ELSE s
       IN IF in.doc.jobs[i].steps > 0 /\ in.doc.jobs[i].length = NaN
          THEN [s |-> s1, throws |-> TRUE, awaiting |-> FALSE, next |-> i]
          ELSE IF in.doc.jobs[i].steps > 0
          THEN [s |-> s1, throws |-> FALSE, awaiting |-> TRUE, next |-> i + 1]
          ELSE GitHubActionsAnalyzer_analyzeJobs(s1, in, i + 1)

GitLabCIAnalyzer_validateStructure(s, in) ==
  IF in.doc.stages = 0 /\ in.doc.scriptJobs = 0
  THEN addIssue(s, Issue("error", "linting", "gl-no-stages-jobs",
                         "engine", in.id))
  ELSE s

BitbucketPipelinesAnalyzer_validateStructure(s, in) ==
  IF in.doc.pipelines = 0
  THEN addIssue(s, Issue("error", "structure", "bb-missing-pipelines",
                         "engine", in.id))
  ELSE s

\* this.platformAnalyzers
platformAnalyzers == {"github-actions", "gitlab-ci", "bitbucket-pipelines"}

\* runPlatformAnalysis up to the call of the analyzer's jobs:
\* validateStructure, or the issue of an unsupported platform
runPlatformAnalysis_structure(s, in, platform) ==
  CASE platform = "github-actions" ->
         GitHubActionsAnalyzer_validateStructure(s, in)
    [] platform = "gitlab-ci" ->
         GitLabCIAnalyzer_validateStructure(s, in)
    [] platform = "bitbucket-pipelines" ->
         BitbucketPipelinesAnalyzer_validateStructure(s, in)
    [] OTHER ->
         addIssue(s, Issue("warning", "linting", "unsupported-platform",
                           "engine", in.id))

\* a mutant: the error of the analyzer is swallowed
runPlatformAnalysis_catch_silent(s, in, platform) == s

\* the catch block of runPlatformAnalysis: the error of the analyzer becomes
\* one issue
runPlatformAnalysis_catch(s, in, platform) ==
  addIssue(s, Issue("error", "linting", platform \o "-analysis-error",
                    "engine", in.id))

(***************************************************************************)
(* The analysis phases of the engine itself.                               *)
(***************************************************************************)
\* checkCommonAntiPatterns, checkDocumentation (it reads this.contentLines,
\* and its checkMissingNames raises on a null job),
\* checkEnvironmentVariables, checkCachingOpportunities
runCommonAnalysis(s, in) ==
  LET s1 == IF "http" \in in.raw.traits
            THEN addIssue(s, Issue("warning", "security", "insecure-http-urls",
                                   "engine", in.id))
            ELSE s
      s2 == IF "undocumented" \in s.rawContent.traits
            THEN addOptimization(s1,
                   Optimization("medium", "maintainability",
                                "Add documentation comments",
                                "engine", s.rawContent.id))
            ELSE s1
      s3 == IF "npmInstall" \in in.raw.traits
            THEN addOptimization(s2,
                   Optimization("low", "maintainability",
                                "Consider adding environment configuration",
                                "engine", in.id))
            ELSE s2
      s4 == IF "npmInstall" \in in.raw.traits
            THEN addOptimization(s3,
                   Optimization("high", "performance", "Add npm caching",
                                "engine", in.id))
            ELSE s3
  IN IF hasNullJob(in.doc)
     THEN addIssue(s2, Issue("error", "linting", "common-analysis-error",
                             "engine", in.id))
     ELSE s4

\* runEnhancedRules: the level is chosen by strictMode, the results are merged
\* results: what this.enhancedRulesEngine.executeRules returned, which are
\* the collections it holds from now on
mergeResults(s, results) ==
  [s EXCEPT
     !.issues = @ \o results.issues,
     !.optimizations = @ \o results.optimizations,
     !.securityVulnerabilities = @ \o results.securityVulnerabilities,
     !.enhanced = [rules |-> results.rules, issues |-> results.issues,
                   optimizations |-> results.optimizations,
                   securityVulnerabilities |-> results.securityVulnerabilities,
                   invoked |-> results.invoked]]

\* a mutant: the rules always run at level senior
runEnhancedRules_senior(s, in, platform) ==
  mergeResults(s, executeRules(s.enhanced, in, platform, "senior"))

runEnhancedRules(s, in, platform) ==
  mergeResults(s, executeRules(s.enhanced, in, platform,
                               IF s.config.strictMode THEN "expert"
                               ELSE "senior"))

\* scanForExposedSecrets, checkInsecurePractices, checkPermissions,
\* checkVulnerableDependencies
runSecurityAnalysis(s, in) ==
  IF "curlBash" \in in.raw.traits
  THEN addSecurityVulnerability(s,
         SecurityVulnerability("critical", "Piping remote content to shell",
                               "engine", in.id))
  ELSE s

jobsWithDependencies(doc) ==
  Cardinality({ i \in 1..Len(doc.jobs) : hasNeeds(doc.jobs[i]) })

\* analyzeParallelization (job.needs of a null job raises),
\* analyzeBuildOptimization, analyzeResourceUsage
runPerformanceAnalysis(s, in) ==
  LET jobs == Len(in.doc.jobs)
      parallelizableJobs == jobs - jobsWithDependencies(in.doc)
      s1 == IF jobs > 0 /\ parallelizableJobs > 1
            THEN addOptimization(s,
                   Optimization("low", "performance", "Good parallelization",
                                "engine", in.id))
            ELSE IF jobs > 1 /\ jobsWithDependencies(in.doc) = jobs
            THEN addOptimization(s,
                   Optimization("medium", "performance",
                                "Consider reducing job dependencies",
                                "engine", in.id))
            ELSE s
  IN IF hasNullJob(in.doc)
     THEN addIssue(s, Issue("error", "performance",
                            "performance-analysis-error", "engine", in.id))
     ELSE IF "npmInstall" \in in.raw.traits
     THEN addOptimization(s1,
            Optimization("medium", "performance",
                         "Use npm ci for faster installs", "engine", in.id))
     ELSE s1

\* analyzeRunnerCosts, analyzeBuildFrequency, analyzeStorageCosts
runCostAnalysis(s, in) ==
  IF "macos" \in in.raw.traits
  THEN addOptimization(s,
         Optimization("high", "cost", "Consider cost-effective runners",
                      "engine", in.id))
  ELSE s

\* a mutant of the catch block: the error of a custom rule ends the loop
customRuleError_abort(s, rule, in) == [s EXCEPT !.aborted = TRUE]

\* the catch block of executeCustomRules
customRuleError(s, rule, in) ==
  addIssue(s, Issue("error", "linting", "custom-rule-error-" \o rule.id,
                    rule.id, in.id))

\* the issues rule.check(parsedYAML, rawContent, platform) returns
RECURSIVE customRuleIssues(_, _, _)
customRuleIssues(rule, in, n) ==
  IF n = 0 THEN <<>>
  ELSE Append(customRuleIssues(rule, in, n - 1),
              Issue("warning", "custom", rule.id, rule.id, in.id))

RECURSIVE forEachCustomRule(_, _, _, _)
forEachCustomRule(s, rules, in, i) ==
  IF i > Len(rules) \/ s.aborted THEN s
  ELSE forEachCustomRule(
         IF rules[i].throws
         THEN customRuleError(s, rules[i], in)
         ELSE [s EXCEPT !.issues =
                 @ \o customRuleIssues(rules[i], in, rules[i].returns)],
         rules, in, i + 1)

executeCustomRules(s, cfg, in) ==
  LET r == forEachCustomRule(
             [issues |-> s.issues, optimizations |-> s.optimizations,
              securityVulnerabilities |-> s.securityVulnerabilities,
              aborted |-> FALSE],
             cfg.customRules, in, 1)
  IN [issues |-> r.issues, optimizations |-> r.optimizations,
      securityVulnerabilities |-> r.securityVulnerabilities,
      aborted |-> r.aborted]

handleAnalysisError(s, in) ==
  addIssue(s, Issue("critical", "linting", "analysis-failure",
                    "engine", in.id))

(***************************************************************************)
(* Aggregation: score, security report, cost, metrics, recommendations.    *)
(***************************************************************************)
\* the switch over issue.severity
issueDeduction(severity) ==
  CASE severity = "critical" -> 25
    [] severity = "error" -> 15
    [] severity = "warning" -> 8
    [] severity = "info" -> 3
    [] OTHER -> 0

\* a mutant: the vulnerabilities are scored with the table of the issues
vulnerabilityDeduction_issueTable(severity) == issueDeduction(severity)

\* the switch over vuln.severity
vulnerabilityDeduction(severity) ==
  CASE severity = "critical" -> 30
    [] severity = "high" -> 20
    [] severity = "medium" -> 10
    [] severity = "low" -> 5
    [] OTHER -> 0

Max(a, b) == IF a >= b THEN a ELSE b
Min(a, b) == IF a <= b THEN a ELSE b

\* a mutant: only the upper limit is applied
clampScore_upperOnly(score) == Min(100, score)

\* Math.max(0, Math.min(100, score))
clampScore(score) == Max(0, Min(100, score))

RECURSIVE deductIssues(_, _, _)
deductIssues(score, list, i) ==
  IF i > Len(list) THEN score
  ELSE deductIssues(score - issueDeduction(list[i].severity), list, i + 1)

RECURSIVE deductVulnerabilities(_, _, _)
deductVulnerabilities(score, list, i) ==
  IF i > Len(list) THEN score
  ELSE deductVulnerabilities(score - vulnerabilityDeduction(list[i].severity),
                             list, i + 1)

calculateScore(s) ==
  clampScore(deductVulnerabilities(deductIssues(100, s.issues, 1),
                                   s.securityVulnerabilities, 1))

\* a mutant: the report carries the main score
generateSecurityReport_mainScore(s) ==
  [overallScore |-> calculateScore(s),
   vulnerabilities |-> s.securityVulnerabilities]

generateSecurityReport(s) ==
  [overallScore |-> Max(0, 100 - Len(s.securityVulnerabilities) * 10),
   vulnerabilities |-> s.securityVulnerabilities]

countJobs(parsed, platform) ==
  CASE platform = "github-actions" -> Len(parsed.jobs)
    [] platform = "gitlab-ci" -> parsed.scriptJobs
    [] platform = "bitbucket-pipelines" -> parsed.pipelines
    [] OTHER -> IF parsed.jobs # <<>> THEN Len(parsed.jobs) ELSE parsed.stages

RECURSIVE countStepsFrom(_, _)
countStepsFrom(parsed, i) ==
  IF i > Len(parsed.jobs) THEN 0
  ELSE IF parsed.jobs[i].steps > 0
       THEN plus(parsed.jobs[i].length, countStepsFrom(parsed, i + 1))
       ELSE countStepsFrom(parsed, i + 1)

countSteps(parsed) == countStepsFrom(parsed, 1)

\* Math.round(num / den) of non-negative numbers; 0 / 0 is NaN
round(num, den) ==
  IF num = NaN \/ den = NaN \/ den = 0 THEN NaN
  ELSE (2 * num + den) \div (2 * den)

\* optimizedMonthlyCost and potentialSavings are in tenths
generateCostEstimation(parsed, platform) ==
  LET jobCount == countJobs(parsed, platform)
      stepCount == countSteps(parsed)
      baseComputeCost == plus(times(jobCount, 10), times(stepCount, 2))
      storageCost == 5
      networkCost == 2
      currentMonthlyCost == plus(plus(baseComputeCost, storageCost), networkCost)
      optimizedMonthlyCost == times(currentMonthlyCost, 7)
      potentialSavings ==
        IF currentMonthlyCost = NaN THEN NaN
        ELSE 10 * currentMonthlyCost - optimizedMonthlyCost
  IN [currentMonthlyCost |-> currentMonthlyCost,
      optimizedMonthlyCost |-> optimizedMonthlyCost,
      potentialSavings |-> potentialSavings,
      savingsPercentage |->
        round(times(potentialSavings, 100), times(currentMonthlyCost, 10)),
      compute |-> baseComputeCost, storage |-> storageCost,
      network |-> networkCost]

\* count: the number the description of the entry carries
Recommendation(title, count, priority, effort, impact, category) ==
  [title |-> title, count |-> count, priority |-> priority,
   effort |-> effort, impact |-> impact, category |-> category]

\* the length of list.filter((x) => x.field === value)
filterLength(list, field, value) ==
  Cardinality({i \in 1..Len(list) : list[i][field] = value})

\* the security entry before the error entry
generateRecommendations_securityFirst(s) ==
  LET criticalIssues == filterLength(s.issues, "severity", "critical")
      errorIssues == filterLength(s.issues, "severity", "error")
      securityIssues == filterLength(s.issues, "category", "security")
      performanceOptimizations ==
        filterLength(s.optimizations, "impact", "high")
  IN (IF criticalIssues > 0
      THEN << Recommendation("Fix Critical Issues", criticalIssues,
                             "high", "high", "high", "linting") >>
      ELSE <<>>)
     \o (IF securityIssues > 0
         THEN << Recommendation("Improve Security Posture", securityIssues,
                                "high", "low", "high", "security") >>
         ELSE <<>>)
     \o (IF errorIssues > 0
         THEN << Recommendation("Resolve Error Issues", errorIssues,
                                "high", "medium", "high", "linting") >>
         ELSE <<>>)
     \o (IF performanceOptimizations > 0
         THEN << Recommendation("Optimize Performance",
                                performanceOptimizations,
                                "medium", "low", "high", "performance") >>
         ELSE <<>>)

generateRecommendations(s) ==
  LET criticalIssues == filterLength(s.issues, "severity", "critical")
      errorIssues == filterLength(s.issues, "severity", "error")
      securityIssues == filterLength(s.issues, "category", "security")
      performanceOptimizations ==
        filterLength(s.optimizations, "impact", "high")
  IN (IF criticalIssues > 0
      THEN << Recommendation("Fix Critical Issues", criticalIssues,
                             "high", "high", "high", "linting") >>
      ELSE <<>>)
     \o (IF errorIssues > 0
         THEN << Recommendation("Resolve Error Issues", errorIssues,
                                "high", "medium", "high", "linting") >>
         ELSE <<>>)
     \o (IF securityIssues > 0
         THEN << Recommendation("Improve Security Posture", securityIssues,
                                "high", "low", "high", "security") >>
         ELSE <<>>)
     \o (IF performanceOptimizations > 0
         THEN << Recommendation("Optimize Performance",
                                performanceOptimizations,
                                "medium", "low", "high", "performance") >>
         ELSE <<>>)

\* a line of the graph text: the edge dep --> job, or the node of a job; the
\* labels of a line carry the names as they are in the document
Edge(dep, job) == [line |-> "edge", dep |-> dep, job |-> job]

Node(job) == [line |-> "node", dep |-> 0, job |-> job]

\* the lines dependencies.forEach appends for job, from the k-th name on
RECURSIVE edgesFrom(_, _, _)
edgesFrom(dependencies, job, k) ==
  IF k > Len(dependencies) THEN <<>>
  ELSE << Edge(dependencies[k], job) >> \o edgesFrom(dependencies, job, k + 1)

\* the lines jobs.forEach appends, from the i-th job on
RECURSIVE linesFrom(_, _)
linesFrom(parsed, i) ==
  IF i > Len(parsed.jobs) THEN <<>>
  ELSE (IF hasNeeds(parsed.jobs[i])
        THEN edgesFrom(parsed.jobs[i].needs.names, i, 1)
        ELSE << Node(i) >>)
       \o linesFrom(parsed, i + 1)

\* placeholder: one of the two fixed texts, or "" for a graph of lines
Graph(placeholder, lines) == [placeholder |-> placeholder, lines |-> lines]

generateDependencyGraph(parsed, platform) ==
  IF platform = "github-actions" /\ parsed.jobs # <<>>
  THEN IF Len(parsed.jobs) <= 1
       THEN Graph("A[Single Job] --> B[Complete]", <<>>)
       ELSE Graph("", linesFrom(parsed, 1))
  ELSE Graph("A[Analysis] --> B[Complete]", <<>>)

\* Object.values(parsed.jobs || {}).filter((job) => job.needs).length
calculateParallelizationScore(parsed) ==
  LET totalJobs == Len(parsed.jobs)
  IN IF totalJobs <= 1 THEN 100
     ELSE round((totalJobs - jobsWithDependencies(parsed)) * 100, totalJobs)

\* the jobs with !job.needs || job.needs.length === 0
countParallelizableJobs(parsed) ==
  Cardinality({i \in 1..Len(parsed.jobs) :
                 \/ ~hasNeeds(parsed.jobs[i])
                 \/ Len(parsed.jobs[i].needs.names) = 0})

\* parallelizationScore: performance.parallelizationScore of the metrics
calculateMetrics(s, parsed, platform) ==
  [jobsCount |-> countJobs(parsed, platform),
   stepsCount |-> countSteps(parsed),
   parallelizableJobs |-> countParallelizableJobs(parsed),
   parallelizationScore |-> calculateParallelizationScore(parsed),
   securityScore |-> Max(0, 100 - Len(s.securityVulnerabilities) * 10)]

\* generateCostEstimation, generateDependencyGraph and calculateMetrics read
\* parsed.jobs, and job.steps of every job: a null root or a null job raises
generateAnalysisResultThrows(parsed) ==
  parsed.root = "null" \/ hasNullJob(parsed)

\* s: the fields of the engine; doc records which document the aggregates
\* were computed from (this.parsedYAML)
generateAnalysisResult(s, platform) ==
  [outcome |-> "resolved",
   platform |-> platform,
   score |-> calculateScore(s),
   issues |-> s.issues,
   optimizations |-> s.optimizations,
   securityReport |-> generateSecurityReport(s),
   costEstimation |-> generateCostEstimation(s.parsedYAML, platform),
   recommendations |-> generateRecommendations(s),
   dependencyGraph |-> generateDependencyGraph(s.parsedYAML, platform),
   metrics |-> calculateMetrics(s, s.parsedYAML, platform),
   doc |-> s.parsedYAML.id]

\* the call has not returned / its promise was rejected
NoResult == [outcome |-> "pending"]
Rejected == [outcome |-> "rejected"]

(***************************************************************************)
(* analyze: the segments of one call, from one await to the next.  A       *)
(* segment maps the fields of the engine (this) to their new values, and   *)
(* says where the call is suspended next (pc), which job the platform      *)
(* analyzer visits next (job) and what the call returned (result).         *)
(***************************************************************************)
Suspended(s, p, job) ==
  [this |-> s, pc |-> p, job |-> job, result |-> NoResult]

Settled(s, r) == [this |-> s, pc |-> "done", job |-> 0, result |-> r]

\* the catch block of analyze: generateAnalysisResult is called again, and
\* what it raises this time rejects the promise
analyze_catch(s, in, platform) ==
  LET s1 == handleAnalysisError(s, in)
  IN Settled(s1, IF generateAnalysisResultThrows(s1.parsedYAML)
                 THEN Rejected
                 ELSE generateAnalysisResult(s1, platform))

\* the phase that follows, given the switches of this.config
afterPerformance(cfg) == IF cfg.enableCostAnalysis THEN "cost" ELSE "finish"

afterSecurity(cfg) ==
  IF cfg.enablePerformanceAnalysis THEN "performance"
  ELSE afterPerformance(cfg)

afterEnhanced(cfg) ==
  IF cfg.enableSecurityAnalysis THEN "security" ELSE afterSecurity(cfg)

\* analyzer.analyze from job i up to its next await
runPlatformAnalysis_segment(s, in, platform, i) ==
  IF platform = "github-actions"
  THEN LET r == GitHubActionsAnalyzer_analyzeJobs(s, in, i)
       IN IF r.throws THEN Suspended(r.s, "platformCatch", 0)
          ELSE IF r.awaiting THEN Suspended(r.s, "platform", r.next)
          ELSE Suspended(r.s, "common", 0)
  ELSE Suspended(s, "common", 0)

\* analyze up to its first await: reset, the assignments of the fields,
\* validateInput, and runPlatformAnalysis up to the analyzer's first await
analyze_start(this, in, platform) ==
  LET s0 == [this EXCEPT !.rawContent = reset.rawContent,
                         !.parsedYAML = reset.parsedYAML,
                         !.issues = reset.issues,
                         !.optimizations = reset.optimizations,
                         !.securityVulnerabilities =
                            reset.securityVulnerabilities]
      s1 == [s0 EXCEPT !.rawContent = in.raw]
      s2 == [s1 EXCEPT !.parsedYAML = in.doc]
  IN IF ~in.raw.str
     THEN analyze_catch(s1, in, platform)   \* rawContent.split raises
     ELSE IF validateInputThrows(in, platform)
     THEN analyze_catch(s2, in, platform)
     ELSE runPlatformAnalysis_segment(
            runPlatformAnalysis_structure(
              validateInput(s2, s2.config, in, platform), in, platform),
            in, platform, 1)

\* executeCustomRules and generateAnalysisResult, after the last await
analyze_finish(s, in, platform) ==
  LET r == executeCustomRules(s, s.config, in)
      s1 == [s EXCEPT !.issues = r.issues,
                      !.optimizations = r.optimizations,
                      !.securityVulnerabilities = r.securityVulnerabilities]
  IN IF r.aborted \/ generateAnalysisResultThrows(s1.parsedYAML)
     THEN analyze_catch(s1, in, platform)
     ELSE Settled(s1, generateAnalysisResult(s1, platform))

\* the segment of analyze that runs when the call is resumed at p
analyze_resume(s, in, platform, job, p) ==
  CASE p = "platform" -> runPlatformAnalysis_segment(s, in, platform, job)
    [] p = "platformCatch" ->
         Suspended(runPlatformAnalysis_catch(s, in, platform), "common", 0)
    [] p = "common" -> Suspended(runCommonAnalysis(s, in), "enhanced", 0)
    [] p = "enhanced" ->
         Suspended(runEnhancedRules(s, in, platform), afterEnhanced(s.config), 0)
    [] p = "security" ->
         Suspended(runSecurityAnalysis(s, in), afterSecurity(s.config), 0)
    [] p = "performance" ->
         Suspended(runPerformanceAnalysis(s, in), afterPerformance(s.config), 0)
    [] p = "cost" -> Suspended(runCostAnalysis(s, in), "finish", 0)
    [] p = "finish" -> analyze_finish(s, in, platform)

AnalyzePhases ==
  {"platform", "platformCatch", "common", "enhanced", "security",
   "performance", "cost", "finish"}

(***************************************************************************)
(* analyzeCICD.                                                            *)
(***************************************************************************)
\* { ...a, ...b }
spread(a, b) ==
  [k \in (DOMAIN a) \cup (DOMAIN b) |-> IF k \in DOMAIN b THEN b[k] ELSE a[k]]

CICDMaxFileSize == 10485760

defaultConfig == Config(TRUE, TRUE, TRUE, CICDMaxFileSize, FALSE, <<>>)

\* new AdvancedYamlRulesEngine(config): the field initialisers and the
\* constructor
newAdvancedYamlRulesEngine(cfg) ==
  [config |-> spread(constructorDefaults, cfg),
   rawContent |-> reset.rawContent,
   parsedYAML |-> reset.parsedYAML,
   issues |-> <<>>, optimizations |-> <<>>, securityVulnerabilities |-> <<>>,
   enhanced |-> newEnhancedRulesEngine]

\* a file given to analyzeCICD: its text, and what SimpleYamlParser.parse
\* makes of it (it raises on a malformed text, else it returns in.doc)
File(in, malformed) == [in |-> in, malformed |-> malformed]

\* a file name: its lower-cased text and the markers that text includes
Filename(lower, includes) == [lower |-> lower, includes |-> includes]

NoFilename == Filename("", {})

\* the checks of analyzeCICD that throw before the engine is constructed
analyzeCICDThrows(file, cfg) ==
  \/ ~file.in.raw.str
  \/ file.in.raw.len = 0
  \/ file.in.raw.len > cfg.maxFileSize
  \/ file.malformed
  \/ file.in.doc.root # "object"

detectPlatform_filename(filename) ==
  IF filename.lower = "" THEN [platform |-> "unknown", confidence |-> 0]
  ELSE IF ".github/workflows/" \in filename.includes
          \/ "workflow" \in filename.includes
  THEN [platform |-> "github-actions", confidence |-> 8]
  ELSE IF filename.lower = ".gitlab-ci.yml" \/ "gitlab" \in filename.includes
  THEN [platform |-> "gitlab-ci", confidence |-> 8]
  ELSE IF filename.lower = "bitbucket-pipelines.yml"
  THEN [platform |-> "bitbucket-pipelines", confidence |-> 8]
  ELSE IF filename.lower = "azure-pipelines.yml" \/ "azure" \in filename.includes
  THEN [platform |-> "azure-pipelines", confidence |-> 8]
  ELSE IF ".circleci/config.yml" \in filename.includes
  THEN [platform |-> "circleci", confidence |-> 8]
  ELSE IF filename.lower = "jenkinsfile" \/ "jenkins" \in filename.includes
  THEN [platform |-> "jenkins", confidence |-> 8]
  ELSE [platform |-> "unknown", confidence |-> 0]

\* confidence in tenths; the structure of the document has priority
detectPlatform(parsed, filename) ==
  LET byName == detectPlatform_filename(filename)
  IN IF parsed.on /\ parsed.jobs # <<>>
     THEN [platform |-> "github-actions",
           confidence |-> Max(byName.confidence, 9)]
     ELSE IF parsed.pipelines > 0
     THEN [platform |-> "bitbucket-pipelines",
           confidence |-> Max(byName.confidence, 9)]
     ELSE IF parsed.stages > 0
     THEN [platform |-> "gitlab-ci",
           confidence |-> Max(byName.confidence, 7)]
     ELSE [platform |-> byName.platform,
           confidence |-> Min(10, byName.confidence)]

\* a mutant of the catch block of analyzeCICD: the error reaches the caller
analyzeCICD_catch_rethrow(file, cfg) == Rejected

\* the catch block of analyzeCICD: the fallback result
analyzeCICD_catch(file, cfg) ==
  [outcome |-> "resolved",
   platform |-> "unknown",
   score |-> 0,
   issues |-> << Issue("error", "linting", "analysis-error", "analyzeCICD",
                       file.in.id) >>,
   optimizations |-> <<>>,
   recommendations |-> <<>>,
   metrics |-> [jobsCount |-> 0, stepsCount |-> 0, parallelizableJobs |-> 0,
               parallelizationScore |-> 0, securityScore |-> 0],
   configUsed |-> cfg,
   platformDetection |-> [platform |-> "unknown", confidence |-> 0]]

\* what analyzeCICD returns once the promise of analyze is settled
analyzeCICD_return(analysisResult, file, cfg, platformDetection) ==
  IF analysisResult.outcome = "rejected" THEN analyzeCICD_catch(file, cfg)
  ELSE spread(analysisResult,
              [platform |-> platformDetection.platform,
               configUsed |-> cfg,
               platformDetection |-> platformDetection])

\* a mutant: every call uses the engine of the first one
rulesEngine_shared(c) == 1

\* const rulesEngine = new AdvancedYamlRulesEngine(analysisConfig): the
\* engine of call c is its own
rulesEngine(c) == c

(***************************************************************************)
(* State shared by the specifications.                                     *)
(***************************************************************************)
\* the fields of engine e
engineFields(e) ==
  [config |-> config[e],
   rawContent |-> rawContent[e], parsedYAML |-> parsedYAML[e],
   issues |-> issues[e], optimizations |-> optimizations[e],
   securityVulnerabilities |-> securityVulnerabilities[e],
   enhanced |-> enhanced[e]]

\* the fields of engine e become those of s
SetEngine(e, s) ==
  /\ config' = [config EXCEPT ![e] = s.config]
  /\ rawContent' = [rawContent EXCEPT ![e] = s.rawContent]
  /\ parsedYAML' = [parsedYAML EXCEPT ![e] = s.parsedYAML]
  /\ issues' = [issues EXCEPT ![e] = s.issues]
  /\ optimizations' = [optimizations EXCEPT ![e] = s.optimizations]
  /\ securityVulnerabilities' =
       [securityVulnerabilities EXCEPT ![e] = s.securityVulnerabilities]
  /\ enhanced' = [enhanced EXCEPT ![e] = s.enhanced]

\* the three sinks of engine e become those of s
SetSinks(e, s) ==
  /\ issues' = [issues EXCEPT ![e] = s.issues]
  /\ optimizations' = [optimizations EXCEPT ![e] = s.optimizations]
  /\ securityVulnerabilities' =
       [securityVulnerabilities EXCEPT ![e] = s.securityVulnerabilities]

NoFrame == [engine |-> 0, overlap |-> FALSE]

InitEngines ==
  /\ rawContent = [e \in Engines |-> reset.rawContent]
  /\ parsedYAML = [e \in Engines |-> reset.parsedYAML]
  /\ issues = [e \in Engines |-> <<>>]
  /\ optimizations = [e \in Engines |-> <<>>]
  /\ securityVulnerabilities = [e \in Engines |-> <<>>]
  /\ enhanced = [e \in Engines |-> newEnhancedRulesEngine]
  /\ pc = [c \in Calls |-> "idle"]
  /\ frame = [c \in Calls |-> NoFrame]
  /\ result = [c \in Calls |-> NoResult]

(***************************************************************************)
(* SpecScore: findings are added to the sinks of one engine through its    *)
(* public methods and the result is generated from them.                   *)
(***************************************************************************)
ScoreInit ==
  /\ InitEngines
  /\ config = [e \in Engines |-> constructorDefaults]

Score_addIssue ==
  /\ Len(issues[1]) < MaxFindings
  /\ \E severity \in IssueSeverities :
       SetSinks(1, addIssue(engineFields(1),
                            Issue(severity, "linting", "added", "caller", 1)))
  /\ UNCHANGED <<config, rawContent, parsedYAML, enhanced, pc, frame, result>>

Score_addSecurityVulnerability ==
  /\ Len(securityVulnerabilities[1]) < MaxFindings
  /\ \E severity \in VulnerabilitySeverities :
       SetSinks(1, addSecurityVulnerability(engineFields(1),
                     SecurityVulnerability(severity, "added", "caller", 1)))
  /\ UNCHANGED <<config, rawContent, parsedYAML, enhanced, pc, frame, result>>

Score_generateAnalysisResult ==
  /\ result' = [result EXCEPT
                  ![1] = generateAnalysisResult(engineFields(1), "unknown")]
  /\ UNCHANGED <<config, rawContent, parsedYAML, issues, optimizations,
                 securityVulnerabilities, enhanced, pc, frame>>

ScoreNext ==
  \/ Score_addIssue
  \/ Score_addSecurityVulnerability
  \/ Score_generateAnalysisResult

SpecScore == ScoreInit /\ [][ScoreNext]_vars

(***************************************************************************)
(* SpecRecommendations: issues of any severity and category and            *)
(* optimizations of any impact are collected on one engine, then the       *)
(* result is built.                                                        *)
(***************************************************************************)
RecommendationCategories == {"security", "linting"}

RecommendationImpacts == {"high", "medium"}

RecommendationsInit == ScoreInit

Recommendations_addIssue ==
  /\ pc[1] = "idle"
  /\ Len(issues[1]) < MaxFindings
  /\ \E severity \in IssueSeverities, category \in RecommendationCategories :
       SetSinks(1, addIssue(engineFields(1),
                            Issue(severity, category, "added", "caller", 1)))
  /\ UNCHANGED <<config, rawContent, parsedYAML, enhanced, pc, frame, result>>

Recommendations_addOptimization ==
  /\ pc[1] = "idle"
  /\ Len(optimizations[1]) < MaxFindings
  /\ \E impact \in RecommendationImpacts :
       SetSinks(1, addOptimization(engineFields(1),
                     Optimization(impact, "performance", "added",
                                  "caller", 1)))
  /\ UNCHANGED <<config, rawContent, parsedYAML, enhanced, pc, frame, result>>

Recommendations_generateAnalysisResult ==
  /\ pc[1] = "idle"
  /\ pc' = [pc EXCEPT ![1] = "done"]
  /\ result' = [result EXCEPT
                  ![1] = generateAnalysisResult(engineFields(1), "unknown")]
  /\ UNCHANGED <<config, rawContent, parsedYAML, issues, optimizations,
                 securityVulnerabilities, enhanced, frame>>

RecommendationsNext ==
  \/ Recommendations_addIssue
  \/ Recommendations_addOptimization
  \/ Recommendations_generateAnalysisResult

SpecRecommendations == RecommendationsInit /\ [][RecommendationsNext]_vars

(***************************************************************************)
(* SpecDependencyGraph: the result is built from a document of jobs that   *)
(* need one another, for a platform.                                       *)
(***************************************************************************)
\* what a job of a document of n jobs may need
GraphNeeds(n) ==
  {NoNeeds} \cup {NeedsString(d) : d \in 1..n}
  \cup {NeedsList(<<>>)} \cup {NeedsList(<< d >>) : d \in 1..n}
  \cup {NeedsList(<< d, e >>) : d \in 1..n, e \in 1..n}

GraphJobs ==
  UNION { [1..n -> {Job(FALSE, needs, 1, 1, TRUE) : needs \in GraphNeeds(n)}] :
          n \in 0..MaxJobs }

GraphDocuments ==
  { Doc(11, "object", TRUE, TRUE, 0, 0, 0, jobs) : jobs \in GraphJobs }

GraphPlatforms == {"github-actions", "gitlab-ci"}

\* this.parsedYAML = parsedYAML, the sinks empty
DependencyGraphInit ==
  /\ rawContent = [e \in Engines |-> reset.rawContent]
  /\ parsedYAML \in [Engines -> GraphDocuments]
  /\ \A e \in Engines : parsedYAML[e] = parsedYAML[1]
  /\ issues = [e \in Engines |-> <<>>]
  /\ optimizations = [e \in Engines |-> <<>>]
  /\ securityVulnerabilities = [e \in Engines |-> <<>>]
  /\ enhanced = [e \in Engines |-> newEnhancedRulesEngine]
  /\ pc = [c \in Calls |-> "idle"]
  /\ frame = [c \in Calls |-> NoFrame]
  /\ result = [c \in Calls |-> NoResult]
  /\ config = [e \in Engines |-> constructorDefaults]

DependencyGraph_generateAnalysisResult ==
  /\ pc[1] = "idle"
  /\ pc' = [pc EXCEPT ![1] = "done"]
  /\ \E platform \in GraphPlatforms :
       result' = [result EXCEPT
                    ![1] = generateAnalysisResult(engineFields(1), platform)]
  /\ UNCHANGED <<config, rawContent, parsedYAML, issues, optimizations,
                 securityVulnerabilities, enhanced, frame>>

DependencyGraphNext == DependencyGraph_generateAnalysisResult

SpecDependencyGraph == DependencyGraphInit /\ [][DependencyGraphNext]_vars

(***************************************************************************)
(* maskSecret of the engine and of HardcodedSecretsRule.  A string is the  *)
(* sequence of its characters.                                             *)
(***************************************************************************)
\* "*".repeat(count)
RECURSIVE repeat(_, _)
repeat(char, count) ==
  IF count <= 0 THEN <<>> ELSE << char >> \o repeat(char, count - 1)

\* str.substring(start, end): both indices are clamped to 0..length, and
\* swapped when start is the larger
substring(str, start, end) ==
  LET from == Max(0, Min(start, Len(str)))
      to == Max(0, Min(end, Len(str)))
  IN SubSeq(str, Min(from, to) + 1, Max(from, to))

\* the secret of exactly 8 characters is not masked whole
HardcodedSecretsRule_maskSecret_below8(secret) ==
  IF Len(secret) < 8 THEN repeat("*", Len(secret))
  ELSE substring(secret, 0, 4) \o repeat("*", Len(secret) - 8)
       \o substring(secret, Len(secret) - 4, Len(secret))

AdvancedYamlRulesEngine_maskSecret(secret) ==
  IF Len(secret) <= 8 THEN repeat("*", Len(secret))
  ELSE substring(secret, 0, 4) \o repeat("*", Len(secret) - 8)
       \o substring(secret, Len(secret) - 4, Len(secret))

HardcodedSecretsRule_maskSecret(secret) ==
  IF Len(secret) <= 8 THEN repeat("*", Len(secret))
  ELSE substring(secret, 0, 4) \o repeat("*", Len(secret) - 8)
       \o substring(secret, Len(secret) - 4, Len(secret))

(***************************************************************************)
(* SpecMask: a secret is masked by both implementations.                   *)
(***************************************************************************)
SecretChars == {"a", "*"}

Secrets == UNION { [1..n -> SecretChars] : n \in 0..MaxSecretLength }

\* the word or value a scan hands to maskSecret
MaskFrame(secret) == [engine |-> 1, overlap |-> FALSE, secret |-> secret]

Masked(engine, rule) == [outcome |-> "masked", engine |-> engine, rule |-> rule]

MaskInit ==
  /\ config = [e \in Engines |-> constructorDefaults]
  /\ rawContent = [e \in Engines |-> reset.rawContent]
  /\ parsedYAML = [e \in Engines |-> reset.parsedYAML]
  /\ issues = [e \in Engines |-> <<>>]
  /\ optimizations = [e \in Engines |-> <<>>]
  /\ securityVulnerabilities = [e \in Engines |-> <<>>]
  /\ enhanced = [e \in Engines |-> newEnhancedRulesEngine]
  /\ pc = [c \in Calls |-> "idle"]
  /\ \E secret \in Secrets : frame = [c \in Calls |-> MaskFrame(secret)]
  /\ result = [c \in Calls |-> NoResult]

Mask_maskSecret ==
  /\ pc[1] = "idle"
  /\ pc' = [pc EXCEPT ![1] = "done"]
  /\ result' = [result EXCEPT
       ![1] = Masked(AdvancedYamlRulesEngine_maskSecret(frame[1].secret),
                     HardcodedSecretsRule_maskSecret(frame[1].secret))]
  /\ UNCHANGED <<config, rawContent, parsedYAML, issues, optimizations,
                 securityVulnerabilities, enhanced, frame>>

MaskNext == Mask_maskSecret

SpecMask == MaskInit /\ [][MaskNext]_vars

(***************************************************************************)
(* scanForExposedSecrets.  A line of the raw text is what the scan reads   *)
(* of it: whether it holds "${", whether its first character that is not   *)
(* white space is "#", and the words line.split(separators) returns, each  *)
(* with its length and its entropy in hundredths of a bit.                 *)
(***************************************************************************)
Word(length, entropy) == [length |-> length, entropy |-> entropy]

Line(marker, comment, parts) ==
  [marker |-> marker, comment |-> comment, parts |-> parts]

entropyThreshold == 450

minLength == 20

\* the vulnerability pushed for a word of line index + 1
HighEntropyString(word, line) ==
  [severity |-> "high", title |-> "High Entropy String", rule |-> "engine",
   src |-> 0, word |-> word, line |-> line]

\* parts.forEach from the k-th word on
RECURSIVE scanParts(_, _, _)
scanParts(parts, line, k) ==
  IF k > Len(parts) THEN <<>>
  ELSE (IF parts[k].length >= minLength /\ parts[k].entropy >= entropyThreshold
        THEN << HighEntropyString(parts[k], line) >>
        ELSE <<>>)
       \o scanParts(parts, line, k + 1)

\* a mutant: commented lines are scanned too
RECURSIVE scanLines_comments(_, _)
scanLines_comments(lines, i) ==
  IF i > Len(lines) THEN <<>>
  ELSE (IF lines[i].marker THEN <<>>
        ELSE scanParts(lines[i].parts, i, 1))
       \o scanLines_comments(lines, i + 1)

\* lines.forEach from the i-th line on
RECURSIVE scanLines(_, _)
scanLines(lines, i) ==
  IF i > Len(lines) THEN <<>>
  ELSE (IF lines[i].marker THEN <<>>
        ELSE IF lines[i].comment THEN <<>>
        ELSE scanParts(lines[i].parts, i, 1))
       \o scanLines(lines, i + 1)

\* a mutant of scanForExposedSecrets
scanForExposedSecrets_comments(s, lines) ==
  [s EXCEPT !.securityVulnerabilities = @ \o scanLines_comments(lines, 1)]

scanForExposedSecrets(s, lines) ==
  [s EXCEPT !.securityVulnerabilities = @ \o scanLines(lines, 1)]

(***************************************************************************)
(* SpecEntropy: the raw text of an engine is scanned for exposed secrets.  *)
(***************************************************************************)
\* "", a word too short for the threshold, a long word of few characters,
\* and two words of 24 characters just below and above the threshold
EmptyWord == Word(0, 0)
ShortWord == Word(19, 425)
PlainWord == Word(40, 300)
NearWord == Word(24, 449)
SecretWord == Word(24, 458)

EntropyParts ==
  { << EmptyWord >>, << ShortWord >>, << PlainWord, NearWord >>,
    << SecretWord >>, << PlainWord, SecretWord, SecretWord >> }

EntropyLines ==
  { Line(marker, comment, parts) :
      marker \in BOOLEAN, comment \in BOOLEAN, parts \in EntropyParts }

EntropyTexts == UNION { [1..n -> EntropyLines] : n \in 1..MaxLines }

\* frame: content.split("\n") of the text handed to the scan
EntropyFrame(lines) == [engine |-> 1, overlap |-> FALSE, lines |-> lines]

EntropyInit ==
  /\ config = [e \in Engines |-> constructorDefaults]
  /\ rawContent = [e \in Engines |-> reset.rawContent]
  /\ parsedYAML = [e \in Engines |-> reset.parsedYAML]
  /\ issues = [e \in Engines |-> <<>>]
  /\ optimizations = [e \in Engines |-> <<>>]
  /\ securityVulnerabilities = [e \in Engines |-> <<>>]
  /\ enhanced = [e \in Engines |-> newEnhancedRulesEngine]
  /\ pc = [c \in Calls |-> "idle"]
  /\ \E lines \in EntropyTexts : frame = [c \in Calls |-> EntropyFrame(lines)]
  /\ result = [c \in Calls |-> NoResult]

Entropy_scanForExposedSecrets ==
  /\ pc[1] = "idle"
  /\ pc' = [pc EXCEPT ![1] = "done"]
  /\ SetSinks(1, scanForExposedSecrets(engineFields(1), frame[1].lines))
  /\ UNCHANGED <<config, rawContent, parsedYAML, enhanced, frame, result>>

EntropyNext == Entropy_scanForExposedSecrets

SpecEntropy == EntropyInit /\ [][EntropyNext]_vars

(***************************************************************************)
(* checkInsecurePractices.  Every pattern is one RegExp object with the    *)
(* flag g, made anew by each call and used for all lines: test starts at   *)
(* its lastIndex and leaves it at the end of the match, or at 0 when there *)
(* is none.  A line is, for each pattern, where the pattern occurs in it.  *)
(* Two of the nine patterns are modelled.                                  *)
(***************************************************************************)
Occurrence(start, end) == [start |-> start, end |-> end]

\* pattern.test(line): occurrences are those of the pattern in the line, in
\* the order of their starts
RegExp_test(occurrences, lastIndex) ==
  LET later == {k \in 1..Len(occurrences) :
                  occurrences[k].start >= lastIndex}
  IN IF later = {} THEN [found |-> FALSE, lastIndex |-> 0]
     ELSE [found |-> TRUE,
           lastIndex |->
             occurrences[CHOOSE k \in later : \A l \in later : k <= l].end]

insecurePractices ==
  << [title |-> "Insecure curl usage", severity |-> "high"],
     [title |-> "Piping remote content to shell", severity |-> "critical"] >>

\* the vulnerability pushed for pattern p and line index + 1
InsecurePractice(p, line) ==
  [severity |-> insecurePractices[p].severity,
   title |-> insecurePractices[p].title, rule |-> "engine", src |-> 0,
   line |-> line]

\* lines.forEach for pattern p from the i-th line on
RECURSIVE testLines(_, _, _, _)
testLines(p, lines, i, lastIndex) ==
  IF i > Len(lines) THEN <<>>
  ELSE LET t == RegExp_test(lines[i][p], lastIndex)
       IN (IF t.found THEN << InsecurePractice(p, i) >> ELSE <<>>)
          \o testLines(p, lines, i + 1, t.lastIndex)

\* insecurePractices.forEach from pattern p on
RECURSIVE testPatterns(_, _)
testPatterns(p, lines) ==
  IF p > Len(insecurePractices) THEN <<>>
  ELSE testLines(p, lines, 1, 0) \o testPatterns(p + 1, lines)

checkInsecurePractices(s, lines) ==
  [s EXCEPT !.securityVulnerabilities = @ \o testPatterns(1, lines)]

(***************************************************************************)
(* SpecInsecure: the raw text of an engine is checked for insecure         *)
(* practices.                                                              *)
(***************************************************************************)
\* "curl -k https://x" and the same after "  - run: "
InsecureCurl == { <<>>, << Occurrence(0, 7) >>, << Occurrence(9, 16) >> }

\* "curl x | bash", the same after a prefix, and the line that holds it twice
PipedToShell ==
  { <<>>, << Occurrence(0, 13) >>, << Occurrence(9, 22) >>,
    << Occurrence(0, 13), Occurrence(17, 30) >> }

InsecureLines == { << c, q >> : c \in InsecureCurl, q \in PipedToShell }

InsecureTexts == UNION { [1..n -> InsecureLines] : n \in 1..MaxLines }

InsecureInit ==
  /\ config = [e \in Engines |-> constructorDefaults]
  /\ rawContent = [e \in Engines |-> reset.rawContent]
  /\ parsedYAML = [e \in Engines |-> reset.parsedYAML]
  /\ issues = [e \in Engines |-> <<>>]
  /\ optimizations = [e \in Engines |-> <<>>]
  /\ securityVulnerabilities = [e \in Engines |-> <<>>]
  /\ enhanced = [e \in Engines |-> newEnhancedRulesEngine]
  /\ pc = [c \in Calls |-> "idle"]
  /\ \E lines \in InsecureTexts : frame = [c \in Calls |-> EntropyFrame(lines)]
  /\ result = [c \in Calls |-> NoResult]

Insecure_checkInsecurePractices ==
  /\ pc[1] = "idle"
  /\ pc' = [pc EXCEPT ![1] = "done"]
  /\ SetSinks(1, checkInsecurePractices(engineFields(1), frame[1].lines))
  /\ UNCHANGED <<config, rawContent, parsedYAML, enhanced, frame, result>>

InsecureNext == Insecure_checkInsecurePractices

SpecInsecure == InsecureInit /\ [][InsecureNext]_vars

(***************************************************************************)
(* The checks of HardcodedSecretsRule, PermissionsRule and                 *)
(* DangerousCommandsRule: signatures, some with a validator, are matched   *)
(* against every line.  A line is whether it is a comment, whether it      *)
(* holds "$", and for each signature the matches line.match(pattern)       *)
(* returns; a match is what its validator and isLikelySecret return for    *)
(* it.  calls is the order in which validators and the context are called. *)
(***************************************************************************)
\* the first signature of each rule has a validator, the second has none
Signature(name, severity, validator) ==
  [name |-> name, severity |-> severity, validator |-> validator]

signatures ==
  [hardcoded |-> << Signature("AWS Access Key", "critical", TRUE),
                    Signature("Google API Key", "high", FALSE) >>,
   permissions |-> << Signature("File permissions", "medium", TRUE),
                      Signature("Permissive umask", "high", FALSE) >>,
   dangerous |-> << Signature("Recursive delete", "critical", TRUE),
                    Signature("Eval with command substitution", "high",
                              FALSE) >>]

Match(valid, likely) == [valid |-> valid, likely |-> likely]

SourceLine(comment, dollar, matches) ==
  [comment |-> comment, dollar |-> dollar, matches |-> matches]

\* a call of the validator of signature g, or of addSecurityVulnerability,
\* for the k-th match of signature g in line i
Called(op, g, i, k) == [op |-> op, g |-> g, i |-> i, k |-> k]

\* a mutant: the validator is not consulted
matchesForEach_unvalidated(rule, lines, g, i, k, acc) ==
  [acc EXCEPT
     !.calls = Append(@, Called("add", g, i, k)),
     !.securityVulnerabilities =
        Append(@, [severity |-> signatures[rule][g].severity,
                   title |-> signatures[rule][g].name,
                   rule |-> rule, src |-> 0, line |-> i, g |-> g, k |-> k])]

\* the callback of matches.forEach for the k-th match
matchesForEach(rule, lines, g, i, k, acc) ==
  LET match == lines[i].matches[g][k]
      validated == signatures[rule][g].validator
      acc1 == IF validated
              THEN [acc EXCEPT !.calls = Append(@, Called("validator", g, i, k))]
              ELSE acc
  IN IF validated /\ ~match.valid THEN acc1
     ELSE IF rule = "hardcoded" /\ ~match.likely THEN acc1
     ELSE [acc1 EXCEPT
             !.calls = Append(@, Called("add", g, i, k)),
             !.securityVulnerabilities =
                Append(@, [severity |-> signatures[rule][g].severity,
                           title |-> signatures[rule][g].name,
                           rule |-> rule, src |-> 0, line |-> i,
                           g |-> g, k |-> k])]

\* patterns.forEach, lines.forEach and matches.forEach, from signature g,
\* line i and match k on; only HardcodedSecretsRule skips a line with "$"
RECURSIVE signatureCheck(_, _, _, _, _, _)
signatureCheck(rule, lines, g, i, k, acc) ==
  IF g > Len(signatures[rule]) THEN acc
  ELSE IF i > Len(lines) THEN signatureCheck(rule, lines, g + 1, 1, 1, acc)
  ELSE IF \/ lines[i].comment
          \/ (rule = "hardcoded" /\ lines[i].dollar)
          \/ k > Len(lines[i].matches[g])
       THEN signatureCheck(rule, lines, g, i + 1, 1, acc)
  ELSE signatureCheck(rule, lines, g, i, k + 1,
                      matchesForEach(rule, lines, g, i, k, acc))

(***************************************************************************)
(* SpecSignatures: one of the three rules checks a raw text through the    *)
(* context of an EnhancedRulesEngine.                                      *)
(***************************************************************************)
SignatureRules == {"hardcoded", "permissions", "dangerous"}

ValidatedMatches ==
  { <<>>, << Match(TRUE, TRUE) >>, << Match(FALSE, TRUE) >>,
    << Match(TRUE, FALSE) >>, << Match(FALSE, TRUE), Match(TRUE, TRUE) >> }

UnvalidatedMatches == { <<>>, << Match(FALSE, TRUE) >> }

SourceLines ==
  { SourceLine(skip[1], skip[2], << v, u >>) :
      skip \in { <<FALSE, FALSE>>, <<TRUE, FALSE>>, <<FALSE, TRUE>> },
      v \in ValidatedMatches, u \in UnvalidatedMatches }

SourceTexts == UNION { [1..n -> SourceLines] : n \in 1..MaxLines }

SignaturesInit ==
  /\ config = [e \in Engines |-> constructorDefaults]
  /\ rawContent = [e \in Engines |-> reset.rawContent]
  /\ parsedYAML = [e \in Engines |-> reset.parsedYAML]
  /\ issues = [e \in Engines |-> <<>>]
  /\ optimizations = [e \in Engines |-> <<>>]
  /\ securityVulnerabilities = [e \in Engines |-> <<>>]
  /\ enhanced = [e \in Engines |-> newEnhancedRulesEngine]
  /\ pc = [c \in Calls |-> "idle"]
  /\ \E lines \in SourceTexts : frame = [c \in Calls |-> EntropyFrame(lines)]
  /\ result = [c \in Calls |-> NoResult]

\* rule.check(parsed, context); result records the rule and the calls
Signatures_check ==
  /\ pc[1] = "idle"
  /\ pc' = [pc EXCEPT ![1] = "done"]
  /\ \E rule \in SignatureRules :
       \E r \in { signatureCheck(rule, frame[1].lines, 1, 1, 1,
                    [calls |-> <<>>,
                     issues |-> enhanced[1].issues,
                     optimizations |-> enhanced[1].optimizations,
                     securityVulnerabilities |->
                       enhanced[1].securityVulnerabilities]) } :
         /\ enhanced' = [enhanced EXCEPT
              ![1].issues = r.issues,
              ![1].optimizations = r.optimizations,
              ![1].securityVulnerabilities = r.securityVulnerabilities]
         /\ result' = [result EXCEPT
              ![1] = [outcome |-> "checked", rule |-> rule, calls |-> r.calls]]
  /\ UNCHANGED <<config, rawContent, parsedYAML, issues, optimizations,
                 securityVulnerabilities, frame>>

SignaturesNext == Signatures_check

SpecSignatures == SignaturesInit /\ [][SignaturesNext]_vars

(***************************************************************************)
(* SpecRules: calls of executeRules on one EnhancedRulesEngine.            *)
(***************************************************************************)
\* the rules that may raise on an input: the first and the last of the
\* catalog and the two registered for named platforms only
ThrowCandidates ==
  {"hardcoded-secrets", "parallelization-analysis",
   "concurrency-optimization", "complexity-analysis"}

\* any subset of the candidates raises, or every rule of the catalog does
ThrowingSets == (SUBSET ThrowCandidates) \cup { RuleIds }

\* the document of every input is a workflow; the first has two jobs without
\* needs, the second has no job
RuleDocument(id) ==
  Doc(id, "object", TRUE, TRUE, 0, 0, 0,
      IF id = 1 THEN [i \in 1..2 |-> Job(FALSE, NoNeeds, 1, 1, TRUE)]
      ELSE <<>>)

RuleInputs ==
  { [id |-> 1, doc |-> RuleDocument(1), hits |-> RuleIds, throwing |-> t] :
      t \in ThrowingSets }
  \cup { [id |-> 2, doc |-> RuleDocument(2), hits |-> h, throwing |-> t] :
           h \in {{}, RuleIds}, t \in {{}, RuleIds} }

RulesInit ==
  /\ InitEngines
  /\ config = [e \in Engines |-> constructorDefaults]

Rules_executeRules ==
  \E in \in RuleInputs, platform \in Platforms, level \in Levels :
    \E r \in { executeRules(enhanced[1], in, platform, level) } :
    /\ enhanced' = [enhanced EXCEPT ![1] =
         [rules |-> r.rules, issues |-> r.issues,
          optimizations |-> r.optimizations,
          securityVulnerabilities |-> r.securityVulnerabilities,
          invoked |-> r.invoked]]
    /\ frame' = [frame EXCEPT ![1] =
         [engine |-> 1, in |-> in, platform |-> platform, level |-> level]]
    /\ result' = [result EXCEPT ![1] =
         IF r.aborted THEN Rejected
         ELSE [outcome |-> "returned", issues |-> r.issues,
               optimizations |-> r.optimizations,
               securityVulnerabilities |-> r.securityVulnerabilities]]
    /\ pc' = [pc EXCEPT ![1] = "done"]
    /\ UNCHANGED <<config, rawContent, parsedYAML, issues, optimizations,
                   securityVulnerabilities>>

RulesNext == Rules_executeRules

SpecRules == RulesInit /\ [][RulesNext]_vars

(***************************************************************************)
(* Calls of analyze.  A frame holds the arguments and locals of a call;    *)
(* overlap records whether another call was in flight during its time.     *)
(***************************************************************************)
InFlight(c) == pc[c] \notin {"idle", "done"}

\* the frames once a call starts: the calls in flight are overlapped by it
overlapped == [d \in Calls |->
                 IF InFlight(d) THEN [frame[d] EXCEPT !.overlap = TRUE]
                 ELSE frame[d]]

\* call c, whose frame is f, ran the segment seg
Settle(c, f, seg, frames) ==
  /\ SetEngine(f.engine, seg.this)
  /\ IF seg.pc = "done" /\ f.caller = "analyzeCICD"
     THEN /\ pc' = [pc EXCEPT ![c] = "return"]
          /\ frame' = [frames EXCEPT ![c] =
                         [f EXCEPT !.job = seg.job,
                                   !.analysisResult = seg.result]]
          /\ result' = [result EXCEPT ![c] = NoResult]
     ELSE /\ pc' = [pc EXCEPT ![c] = seg.pc]
          /\ frame' = [frames EXCEPT ![c] = [f EXCEPT !.job = seg.job]]
          /\ result' = [result EXCEPT ![c] = seg.result]

\* the call is resumed after an await and runs to the next one
Analyze_resume(c) ==
  /\ pc[c] \in AnalyzePhases
  /\ \E seg \in { analyze_resume(engineFields(frame[c].engine), frame[c].in,
                                 frame[c].platform, frame[c].job, pc[c]) } :
       Settle(c, frame[c], seg, frame)

(***************************************************************************)
(* The documents and texts of the specifications.                          *)
(***************************************************************************)
GoodJobs == << Job(FALSE, NoNeeds, 2, 2, TRUE) >>
MixedJobs ==
  << Job(FALSE, NoNeeds, 0, 0, FALSE), Job(FALSE, NeedsString(1), 1, 1, TRUE) >>
NullJobs ==
  << Job(FALSE, NoNeeds, 1, 1, TRUE), Job(TRUE, NoNeeds, 0, 0, FALSE) >>
\* five jobs, none of which has needs
FiveJobs == [i \in 1..5 |-> Job(FALSE, NoNeeds, 1, 1, TRUE)]
\* the steps of the second job are a mapping
MappingStepsJobs ==
  << Job(FALSE, NoNeeds, 1, 1, TRUE), Job(FALSE, NoNeeds, 2, NaN, TRUE) >>

AllTraits == {"http", "npmInstall", "curlBash", "macos", "undocumented"}

GitHubInput ==
  Input(Doc(1, "object", TRUE, TRUE, 0, 0, 0, GoodJobs),
        Raw(1, TRUE, 200, AllTraits), RuleIds, {})
MixedInput ==
  Input(Doc(2, "object", FALSE, TRUE, 0, 0, 0, MixedJobs),
        Raw(2, TRUE, 100, {"undocumented"}),
        {"hardcoded-secrets", "compliance-standards"},
        {"caching-optimization"})
NullJobInput ==
  Input(Doc(3, "object", TRUE, TRUE, 0, 0, 0, NullJobs),
        Raw(3, TRUE, 100, {}), {}, {})
NullInput ==
  Input(Doc(4, "null", FALSE, FALSE, 0, 0, 0, <<>>),
        Raw(4, TRUE, 100, {}), {}, {})
ScalarInput ==
  Input(Doc(5, "scalar", FALSE, FALSE, 0, 0, 0, <<>>),
        Raw(5, TRUE, 100, {}), {}, {})
EmptyDocInput ==
  Input(Doc(6, "object", FALSE, FALSE, 0, 0, 0, <<>>),
        Raw(6, TRUE, DefaultMaxFileSize + 1, {}), {}, {})
EmptyTextInput ==
  Input(Doc(7, "object", FALSE, FALSE, 2, 2, 0, <<>>),
        Raw(7, TRUE, 0, {}), {}, {})
NonStringInput ==
  Input(Doc(8, "object", FALSE, FALSE, 0, 0, 1, <<>>),
        Raw(8, FALSE, 0, {}), {}, {})
MappingStepsInput ==
  Input(Doc(10, "object", TRUE, TRUE, 0, 0, 0, MappingStepsJobs),
        Raw(10, TRUE, 100, AllTraits), {"hardcoded-secrets"}, {})
FiveJobsInput ==
  Input(Doc(12, "object", TRUE, TRUE, 0, 0, 0, FiveJobs),
        Raw(12, TRUE, 100, {}), {}, {})
\* a pipelines section whose steps have names and scripts
BitbucketInput ==
  Input(Doc(13, "object", FALSE, FALSE, 0, 0, 1, <<>>),
        Raw(13, TRUE, 100, {}), {}, {})
GitLabInput ==
  Input(Doc(9, "object", FALSE, FALSE, 2, 2, 0, <<>>),
        Raw(9, TRUE, 100, {"curlBash"}), RuleIds, RuleIds)

(***************************************************************************)
(* SpecAnalyze: calls of analyze, one after the other, on one engine that  *)
(* was constructed with any of the configurations.                         *)
(***************************************************************************)
CustomRulePool ==
  { CustomRule("a", FALSE, 1), CustomRule("b", TRUE, 0),
    CustomRule("c", FALSE, 2) }

\* the lists of up to MaxCustomRules different custom rules
CustomRuleLists ==
  { q \in UNION { [1..n -> CustomRulePool] : n \in 0..MaxCustomRules } :
      \A i, j \in 1..Len(q) : i # j => q[i] # q[j] }

AnalyzeConfigs ==
  { Config(TRUE, TRUE, TRUE, DefaultMaxFileSize, FALSE, q) :
      q \in CustomRuleLists }
  \cup { Config(FALSE, FALSE, FALSE, DefaultMaxFileSize, TRUE, <<>>),
         Config(TRUE, FALSE, TRUE, 0, FALSE, <<>>) }

AnalyzeInputs ==
  { GitHubInput, MixedInput, NullJobInput, NullInput, ScalarInput,
    EmptyDocInput, EmptyTextInput, NonStringInput, GitLabInput,
    MappingStepsInput, FiveJobsInput, BitbucketInput }

AnalyzePlatforms ==
  {"github-actions", "gitlab-ci", "bitbucket-pipelines", "unknown", ""}

DirectFrame(e, in, platform, overlap) ==
  [engine |-> e, in |-> in, platform |-> platform, job |-> 0,
   caller |-> "direct", overlap |-> overlap]

AnalyzeInit ==
  /\ InitEngines
  /\ \E cfg \in AnalyzeConfigs : config = [e \in Engines |-> cfg]

\* engine.analyze(in.doc, platform, in.raw), once the previous call returned
Analyze_call ==
  /\ pc[1] \in {"idle", "done"}
  /\ \E in \in AnalyzeInputs, platform \in AnalyzePlatforms :
       \E seg \in { analyze_start(engineFields(1), in, platform) } :
         Settle(1, DirectFrame(1, in, platform, FALSE), seg, frame)

AnalyzeNext == Analyze_call \/ Analyze_resume(1)

SpecAnalyze == AnalyzeInit /\ [][AnalyzeNext]_vars

(***************************************************************************)
(* SpecConcurrent: every call of analyze is made once, on the same engine, *)
(* at any time: also while another call is suspended at an await.          *)
(***************************************************************************)
ConcurrentInputs == { GitHubInput, MixedInput, GitLabInput }

ConcurrentPlatforms == {"github-actions", "gitlab-ci"}

ConcurrentInit ==
  /\ InitEngines
  /\ config = [e \in Engines |-> constructorDefaults]

Concurrent_call(c) ==
  /\ pc[c] = "idle"
  /\ \E in \in ConcurrentInputs, platform \in ConcurrentPlatforms :
       \E seg \in { analyze_start(engineFields(1), in, platform) } :
         Settle(c, DirectFrame(1, in, platform,
                               \E d \in Calls \ {c} : InFlight(d)),
                seg, overlapped)

ConcurrentNext == \E c \in Calls : Concurrent_call(c) \/ Analyze_resume(c)

SpecConcurrent == ConcurrentInit /\ [][ConcurrentNext]_vars

(***************************************************************************)
(* SpecCICD: every call of analyzeCICD is made once, at any time.          *)
(***************************************************************************)
CICDFiles ==
  { File(GitHubInput, FALSE), File(GitLabInput, FALSE),
    File(NullJobInput, FALSE), File(MixedInput, TRUE),
    File(ScalarInput, FALSE), File(EmptyTextInput, FALSE),
    File(NonStringInput, FALSE) }

CICDFilenames == { NoFilename, Filename(".gitlab-ci.yml", {"gitlab"}) }

\* the config argument: absent, or the fields it overrides
CICDConfigs ==
  { <<>>, [maxFileSize |-> 150, strictMode |-> TRUE] }

CICDFrame(c, file, filename, cfg, platformDetection, overlap) ==
  [engine |-> rulesEngine(c), in |-> file.in,
   platform |-> platformDetection.platform, job |-> 0,
   caller |-> "analyzeCICD", overlap |-> overlap,
   file |-> file, filename |-> filename, config |-> cfg,
   platformDetection |-> platformDetection, analysisResult |-> NoResult]

CICDInit ==
  /\ InitEngines
  /\ config = [e \in Engines |-> constructorDefaults]

\* analyzeCICD(content, filename, config) up to the await of analyze, or to
\* its catch block
CICD_call(c) ==
  /\ pc[c] = "idle"
  /\ \E file \in CICDFiles, filename \in CICDFilenames, config_ \in CICDConfigs :
       LET cfg == spread(defaultConfig, config_)
           platformDetection == detectPlatform(file.in.doc, filename)
           f == CICDFrame(c, file, filename, cfg, platformDetection,
                          \E d \in Calls \ {c} : InFlight(d))
       IN IF analyzeCICDThrows(file, cfg)
          THEN /\ result' = [result EXCEPT ![c] = analyzeCICD_catch(file, cfg)]
               /\ pc' = [pc EXCEPT ![c] = "done"]
               /\ frame' = [overlapped EXCEPT ![c] = f]
               /\ UNCHANGED <<config, rawContent, parsedYAML, issues,
                              optimizations, securityVulnerabilities,
                              enhanced>>
          ELSE Settle(c, f,
                      analyze_start(newAdvancedYamlRulesEngine(cfg), file.in,
                                    platformDetection.platform),
                      overlapped)

\* analyzeCICD once the promise of analyze is settled
CICD_return(c) ==
  /\ pc[c] = "return"
  /\ result' = [result EXCEPT ![c] =
       analyzeCICD_return(frame[c].analysisResult, frame[c].file,
                          frame[c].config, frame[c].platformDetection)]
  /\ pc' = [pc EXCEPT ![c] = "done"]
  /\ UNCHANGED <<config, rawContent, parsedYAML, issues, optimizations,
                 securityVulnerabilities, enhanced, frame>>

CICDNext ==
  \E c \in Calls : CICD_call(c) \/ Analyze_resume(c) \/ CICD_return(c)

SpecCICD == CICDInit /\ [][CICDNext]_vars

(***************************************************************************)
(* SpecReuse: calls of analyze, one after the other, on one engine; the    *)
(* frame of a call remembers the inputs of the calls completed before it.  *)
(***************************************************************************)
ReuseInputs ==
  { GitHubInput, MixedInput, NullJobInput, ScalarInput, EmptyTextInput,
    GitLabInput }

ReusePlatforms == {"github-actions", "gitlab-ci", "unknown"}

ReuseConfigs ==
  { constructorDefaults,
    Config(TRUE, TRUE, TRUE, 150, TRUE, << CustomRule("a", FALSE, 1) >>) }

ReuseFrame(e, in, platform, earlier) ==
  [engine |-> e, in |-> in, platform |-> platform, job |-> 0,
   caller |-> "direct", overlap |-> FALSE, earlier |-> earlier]

ReuseInit ==
  /\ InitEngines
  /\ \E cfg \in ReuseConfigs : config = [e \in Engines |-> cfg]

\* engine.analyze(in.doc, platform, in.raw), once the previous call returned
Reuse_call ==
  /\ pc[1] \in {"idle", "done"}
  /\ \E in \in ReuseInputs, platform \in ReusePlatforms :
       \E seg \in { analyze_start(engineFields(1), in, platform) } :
         Settle(1,
                ReuseFrame(1, in, platform,
                           IF pc[1] = "done"
                           THEN frame[1].earlier \cup {frame[1].in.id}
                           ELSE {}),
                seg, frame)

ReuseNext == Reuse_call \/ Analyze_resume(1)

SpecReuse == ReuseInit /\ [][ReuseNext]_vars

(***************************************************************************)
(* SpecSecurityReport: vulnerabilities (and an issue) are added to the     *)
(* sinks of one engine, then the result is generated from them.            *)
(***************************************************************************)
SecurityReportSeverities == {"critical", "low"}

SecurityReportInit ==
  /\ InitEngines
  /\ config = [e \in Engines |-> constructorDefaults]

SecurityReport_addSecurityVulnerability ==
  /\ pc[1] = "idle"
  /\ Len(securityVulnerabilities[1]) < MaxVulnerabilities
  /\ \E severity \in SecurityReportSeverities :
       SetSinks(1, addSecurityVulnerability(engineFields(1),
                     SecurityVulnerability(severity, "added", "caller", 1)))
  /\ UNCHANGED <<config, rawContent, parsedYAML, enhanced, pc, frame, result>>

SecurityReport_addIssue ==
  /\ pc[1] = "idle"
  /\ issues[1] = <<>>
  /\ SetSinks(1, addIssue(engineFields(1),
                          Issue("critical", "security", "added", "caller", 1)))
  /\ UNCHANGED <<config, rawContent, parsedYAML, enhanced, pc, frame, result>>

SecurityReport_generateAnalysisResult ==
  /\ pc[1] = "idle"
  /\ result' = [result EXCEPT
                  ![1] = generateAnalysisResult(engineFields(1), "unknown")]
  /\ pc' = [pc EXCEPT ![1] = "done"]
  /\ UNCHANGED <<config, rawContent, parsedYAML, issues, optimizations,
                 securityVulnerabilities, enhanced, frame>>

SecurityReportNext ==
  \/ SecurityReport_addSecurityVulnerability
  \/ SecurityReport_addIssue
  \/ SecurityReport_generateAnalysisResult

SpecSecurityReport == SecurityReportInit /\ [][SecurityReportNext]_vars

(***************************************************************************)
(* Claims about the score (SpecScore).                                     *)
(***************************************************************************)
CountSeverity(list, severity) ==
  Cardinality({ i \in 1..Len(list) : list[i].severity = severity })

\* the deductions of a result, each finding scored by the table of its type
TableDeductions(r) ==
  25 * CountSeverity(r.issues, "critical")
  + 15 * CountSeverity(r.issues, "error")
  + 8 * CountSeverity(r.issues, "warning")
  + 3 * CountSeverity(r.issues, "info")
  + 30 * CountSeverity(r.securityReport.vulnerabilities, "critical")
  + 20 * CountSeverity(r.securityReport.vulnerabilities, "high")
  + 10 * CountSeverity(r.securityReport.vulnerabilities, "medium")
  + 5 * CountSeverity(r.securityReport.vulnerabilities, "low")

\* C1: the score of a generated result is 100 minus the deductions of its
\* issues (25/15/8/3) and of its vulnerabilities (30/20/10/5), each by its own
\* table, clamped once to [0, 100].
C1_ScoreIsClampedSum ==
  result[1].outcome = "resolved" =>
    result[1].score =
      (IF 100 - TableDeductions(result[1]) < 0 THEN 0
       ELSE IF 100 - TableDeductions(result[1]) > 100 THEN 100
       ELSE 100 - TableDeductions(result[1]))

\* a result whose deductions exceed 100, with issues and a critical vulnerability
C1_Witness ==
  /\ result[1].outcome = "resolved"
  /\ result[1].issues # <<>>
  /\ CountSeverity(result[1].securityReport.vulnerabilities, "critical") > 0
  /\ TableDeductions(result[1]) > 100
  /\ result[1].score = 0

currentScore == calculateScore(engineFields(1))

AppendedOneFinding ==
  \/ /\ Len(issues'[1]) = Len(issues[1]) + 1
     /\ SubSeq(issues'[1], 1, Len(issues[1])) = issues[1]
     /\ securityVulnerabilities'[1] = securityVulnerabilities[1]
  \/ /\ Len(securityVulnerabilities'[1]) = Len(securityVulnerabilities[1]) + 1
     /\ SubSeq(securityVulnerabilities'[1], 1,
               Len(securityVulnerabilities[1])) = securityVulnerabilities[1]
     /\ issues'[1] = issues[1]

\* C2: appending one issue or one vulnerability to the findings never raises
\* the score, and the score always lies in [0, 100].
C2_ScoreMonotone ==
  [][ /\ currentScore' \in 0..100
      /\ AppendedOneFinding => currentScore' <= currentScore ]_vars

\* a finding was appended after the result was generated, and the score of
\* the findings is now lower than the score of that result
C2_Witness ==
  /\ result[1].outcome = "resolved"
  /\ \/ /\ Len(issues[1]) = Len(result[1].issues) + 1
        /\ securityVulnerabilities[1] = result[1].securityReport.vulnerabilities
     \/ /\ Len(securityVulnerabilities[1]) =
             Len(result[1].securityReport.vulnerabilities) + 1
        /\ issues[1] = result[1].issues
  /\ currentScore < result[1].score

(***************************************************************************)
(* Claims about executeRules (SpecRules).                                  *)
(***************************************************************************)
CatalogIndex == 1..Len(initializeRules)

WasInvoked(id) ==
  \E k \in 1..Len(enhanced[1].invoked) : enhanced[1].invoked[k] = id

\* the ids of the rules that pass both filters, in registration order
ApplicableIds(platform, level) ==
  LET Test(rule) ==
        matchesPlatform(rule, platform) /\ matchesLevel(rule.level, level)
      sel == SelectSeq(initializeRules, Test)
  IN [k \in 1..Len(sel) |-> sel[k].id]

RuleErrorIssues(list, id) ==
  { k \in 1..Len(list) : list[k].ruleId = "rule-error-" \o id }

\* C5: a rule whose check raises yields exactly one synthetic issue (error,
\* linting, "rule-error-" + id), the rules after it are still evaluated, and
\* executeRules returns normally, whichever rules raise.
C5_RuleErrorsIsolated ==
  pc[1] = "done" =>
    /\ result[1].outcome = "returned"
    /\ enhanced[1].invoked = ApplicableIds(frame[1].platform, frame[1].level)
    /\ \A i \in CatalogIndex :
         LET id == initializeRules[i].id
             errors == RuleErrorIssues(result[1].issues, id)
         IN /\ Cardinality(errors) =
                 (IF WasInvoked(id) /\ id \in frame[1].in.throwing
                  THEN 1 ELSE 0)
            /\ \A k \in errors :
                 /\ result[1].issues[k].severity = "error"
                 /\ result[1].issues[k].category = "linting"

\* every rule of the catalog raised, and the last one was still evaluated
C5_Witness ==
  /\ pc[1] = "done"
  /\ frame[1].in.throwing = RuleIds
  /\ frame[1].level = "all"
  /\ frame[1].platform = "github-actions"
  /\ Len(enhanced[1].invoked) = Len(initializeRules)
  /\ Cardinality(RuleErrorIssues(result[1].issues, "complexity-analysis")) = 1

\* ruleLevel is at or below level in junior < intermediate < senior < expert
AtOrBelow(ruleLevel, level) ==
  \E i, j \in 1..Len(levels) :
    levels[i] = ruleLevel /\ levels[j] = level /\ i <= j

\* C7: given a matching platform, a rule's check is invoked iff its level is at
\* or below the requested level in junior < intermediate < senior < expert;
\* the level "all" bypasses the filter.
C7_LevelFilter ==
  pc[1] = "done" =>
    \A i \in CatalogIndex :
      LET rule == initializeRules[i] IN
      matchesPlatform(rule, frame[1].platform) =>
        (WasInvoked(rule.id) <=>
           (frame[1].level = "all" \/ AtOrBelow(rule.level, frame[1].level)))

\* C8: a rule's check is invoked only when its platforms hold "all" or the
\* requested platform; a rule registered for other platforms only appends
\* nothing to any of the three sinks.
C8_PlatformFilter ==
  pc[1] = "done" =>
    \A i \in CatalogIndex :
      LET rule == initializeRules[i]
          registered == "all" \in rule.platforms
                        \/ frame[1].platform \in rule.platforms
      IN /\ WasInvoked(rule.id) => registered
         /\ ~registered =>
              /\ \A k \in 1..Len(result[1].issues) :
                   result[1].issues[k].rule # rule.id
              /\ \A k \in 1..Len(result[1].optimizations) :
                   result[1].optimizations[k].rule # rule.id
              /\ \A k \in 1..Len(result[1].securityVulnerabilities) :
                   result[1].securityVulnerabilities[k].rule # rule.id

\* under gitlab-ci the rule registered for github-actions only is skipped,
\* although its patterns match and the rules around it are evaluated
C8_Witness ==
  /\ pc[1] = "done"
  /\ frame[1].platform = "gitlab-ci"
  /\ frame[1].level = "all"
  /\ frame[1].in.hits = RuleIds
  /\ ~WasInvoked("concurrency-optimization")
  /\ WasInvoked("parallelization-analysis")
  /\ WasInvoked("complexity-analysis")

(***************************************************************************)
(* Claims about analyze (SpecAnalyze, SpecConcurrent).                     *)
(***************************************************************************)
\* C3: analyze never throws or rejects to its caller: for every input (a null
\* or non-object document, an empty or non-string text, an empty platform,
\* rules that raise) the returned promise resolves to a result whose issues
\* explain what went wrong.
C3_AnalyzeNeverRejects ==
  pc[1] = "done" =>
    /\ result[1].outcome = "resolved"
    /\ (frame[1].in.doc.root # "object" \/ ~frame[1].in.raw.str
        \/ frame[1].in.raw.len = 0 \/ frame[1].platform = "")
         => result[1].issues # <<>>

\* the segments of a call run one after the other, with nothing in between
RECURSIVE analyze_alone(_, _, _)
analyze_alone(seg, in, platform) ==
  IF seg.pc = "done" THEN seg.result
  ELSE analyze_alone(analyze_resume(seg.this, in, platform, seg.job, seg.pc),
                     in, platform)

IssuesWithRuleId(list, ruleId) ==
  { k \in 1..Len(list) : list[k].ruleId = ruleId }

CustomRuleIds(cfg) ==
  { cfg.customRules[k].id : k \in 1..Len(cfg.customRules) }

\* the issues that no custom rule accounts for
BuiltInIssues(list, cfg) ==
  LET BuiltIn(issue) == issue.rule \notin CustomRuleIds(cfg)
  IN SelectSeq(list, BuiltIn)

\* the call went past validateInput, so executeCustomRules was reached
PassedValidation(f) ==
  /\ f.in.doc.root = "object" /\ f.in.raw.str /\ f.in.raw.len > 0
  /\ f.platform # ""

\* C6: a custom rule whose check raises contributes exactly one synthetic
\* error issue, and prevents neither the findings of the built-in analyses
\* nor those of the custom rules listed before or after it from appearing in
\* the result.
C6_CustomRuleIsolation ==
  (pc[1] = "done" /\ PassedValidation(frame[1])
   /\ result[1].outcome = "resolved") =>
    LET cfg == config[1]
        builtIn == analyze_alone(
                     analyze_start([engineFields(1) EXCEPT
                                      !.config.customRules = <<>>],
                                   frame[1].in, frame[1].platform),
                     frame[1].in, frame[1].platform)
    IN /\ \A k \in 1..Len(cfg.customRules) :
            LET rule == cfg.customRules[k]
                errors == IssuesWithRuleId(result[1].issues,
                                           "custom-rule-error-" \o rule.id)
                own == IssuesWithRuleId(result[1].issues, rule.id)
            IN IF rule.throws
               THEN /\ Cardinality(errors) = 1
                    /\ \A i \in errors : result[1].issues[i].severity = "error"
                    /\ own = {}
               ELSE /\ errors = {}
                    /\ Cardinality(own) = rule.returns
       /\ BuiltInIssues(result[1].issues, cfg) = builtIn.issues
       /\ result[1].optimizations = builtIn.optimizations
       /\ result[1].securityReport = builtIn.securityReport

\* the raising rule stands between two others, and the findings of all three
\* and of the built-in analyses are in the result
C6_Witness ==
  /\ pc[1] = "done"
  /\ result[1].outcome = "resolved"
  /\ frame[1].in = GitHubInput
  /\ frame[1].platform = "github-actions"
  /\ Len(config[1].customRules) = 3
  /\ config[1].customRules[2].throws
  /\ Cardinality(IssuesWithRuleId(result[1].issues,
       "custom-rule-error-" \o config[1].customRules[2].id)) = 1
  /\ IssuesWithRuleId(result[1].issues, config[1].customRules[1].id) # {}
  /\ IssuesWithRuleId(result[1].issues, config[1].customRules[3].id) # {}
  /\ BuiltInIssues(result[1].issues, config[1]) # <<>>

FindingsFrom(list, id) == \A k \in 1..Len(list) : list[k].src = id

\* C9: a call of analyze shares no mutable state with a concurrent call on
\* the same engine: whatever the interleaving, each result holds only
\* findings derived from the call's own document and text, and its
\* aggregates are computed from its own document.
C9_CallScoped ==
  \A c \in Calls :
    (pc[c] = "done" /\ result[c].outcome = "resolved") =>
      /\ FindingsFrom(result[c].issues, frame[c].in.id)
      /\ FindingsFrom(result[c].optimizations, frame[c].in.id)
      /\ FindingsFrom(result[c].securityReport.vulnerabilities, frame[c].in.id)
      /\ result[c].doc = frame[c].in.id

(***************************************************************************)
(* Claims about analyzeCICD (SpecCICD).                                    *)
(***************************************************************************)
\* the failures analyzeCICD cannot recover from
Unrecoverable(f) ==
  \/ ~f.file.in.raw.str
  \/ f.file.in.raw.len = 0
  \/ f.file.in.raw.len > f.config.maxFileSize
  \/ f.file.malformed
  \/ f.file.in.doc.root # "object"

\* C4: analyzeCICD never throws, and on an unrecoverable failure (empty or
\* non-string content, content longer than maxFileSize, a parser failure, a
\* non-object root) it returns the fallback result: platform "unknown", every
\* metric zero, no optimizations, no recommendations, and an issue that
\* explains the failure.
C4_FallbackResult ==
  \A c \in Calls :
    pc[c] = "done" =>
      /\ result[c].outcome = "resolved"
      /\ Unrecoverable(frame[c]) =>
           /\ result[c].platform = "unknown"
           /\ \A m \in DOMAIN result[c].metrics : result[c].metrics[m] = 0
           /\ result[c].optimizations = <<>>
           /\ result[c].recommendations = <<>>
           /\ Len(result[c].issues) = 1
           /\ result[c].issues[1].ruleId = "analysis-error"
           /\ result[c].issues[1].src = frame[c].file.in.id

\* a call on a text the parser rejects, and a call on a text longer than the
\* configured limit, have both returned the fallback result
C4_Witness ==
  /\ \A c \in Calls : pc[c] = "done" /\ result[c].platform = "unknown"
  /\ frame[1].file.malformed
  /\ ~frame[2].file.malformed
  /\ frame[2].file.in.raw.len > frame[2].config.maxFileSize

\* analyzeCICD on its own: nothing else runs between its segments
analyzeCICD_alone(file, filename, cfg) ==
  IF analyzeCICDThrows(file, cfg) THEN analyzeCICD_catch(file, cfg)
  ELSE LET platformDetection == detectPlatform(file.in.doc, filename)
       IN analyzeCICD_return(
            analyze_alone(
              analyze_start(newAdvancedYamlRulesEngine(cfg), file.in,
                            platformDetection.platform),
              file.in, platformDetection.platform),
            file, cfg, platformDetection)

\* C10: calls of analyzeCICD construct their own engine, so for any
\* interleaving of calls every call returns the result it returns when it
\* runs alone.
C10_ParallelCallsIndependent ==
  \A c \in Calls :
    pc[c] = "done" =>
      result[c] = analyzeCICD_alone(frame[c].file, frame[c].filename,
                                    frame[c].config)

\* two calls on different documents overlapped, both went through the
\* engine, and both have returned findings
C10_Witness ==
  /\ \A c \in Calls :
       /\ pc[c] = "done"
       /\ frame[c].overlap
       /\ frame[c].engine # 0
       /\ result[c].platform # "unknown"
       /\ result[c].issues # <<>>
  /\ frame[1].in.id # frame[2].in.id

(***************************************************************************)
(* Claims about an engine that is used again (SpecReuse).                  *)
(***************************************************************************)
\* the call has gone past runEnhancedRules
PastEnhanced ==
  pc[1] \in {"security", "performance", "cost", "finish"}

\* C11: on an engine that is used again, a call starts with empty issue,
\* optimization and vulnerability containers (those of the engine and those
\* of its EnhancedRulesEngine), so the result of a call holds no finding
\* that an earlier, completed call produced.
C11_NoLeakageOnReuse ==
  /\ (pc[1] = "done" /\ result[1].outcome = "resolved") =>
        /\ FindingsFrom(result[1].issues, frame[1].in.id)
        /\ FindingsFrom(result[1].optimizations, frame[1].in.id)
        /\ FindingsFrom(result[1].securityReport.vulnerabilities,
                        frame[1].in.id)
  /\ InFlight(1) =>
        /\ FindingsFrom(issues[1], frame[1].in.id)
        /\ FindingsFrom(optimizations[1], frame[1].in.id)
        /\ FindingsFrom(securityVulnerabilities[1], frame[1].in.id)
  /\ PastEnhanced =>
        /\ FindingsFrom(enhanced[1].issues, frame[1].in.id)
        /\ FindingsFrom(enhanced[1].optimizations, frame[1].in.id)
        /\ FindingsFrom(enhanced[1].securityVulnerabilities, frame[1].in.id)

\* the third call on the engine has returned findings of its own, after two
\* calls on other inputs
C11_Witness ==
  /\ pc[1] = "done"
  /\ result[1].outcome = "resolved"
  /\ Cardinality(frame[1].earlier \ {frame[1].in.id}) >= 2
  /\ 1 \in frame[1].earlier
  /\ frame[1].in = MixedInput
  /\ result[1].issues # <<>>
  /\ result[1].optimizations # <<>>
  /\ result[1].securityReport.vulnerabilities # <<>>

\* C12: analyze is deterministic: two calls with the same document, text,
\* platform and configuration, on the same engine or on new ones, return
\* identical results.
C12_Deterministic ==
  \A c, d \in Calls :
    (/\ pc[c] = "done" /\ pc[d] = "done"
     /\ frame[c].engine = frame[d].engine
     /\ frame[c].in = frame[d].in
     /\ frame[c].platform = frame[d].platform) =>
      result[c] = result[d]

(***************************************************************************)
(* Claims about the inputs and the configuration of analyze (SpecAnalyze). *)
(***************************************************************************)
\* the input errors: an empty text, a text longer than config.maxFileSize,
\* a root that is not an object
EmptyText(f) == f.in.raw.str /\ f.in.raw.len = 0

Oversized(f, cfg) ==
  f.in.raw.str /\ cfg.maxFileSize # 0 /\ f.in.raw.len > cfg.maxFileSize

NonObjectRoot(f) == f.in.doc.root # "object"

\* the issues that report an input error
InputErrorIssues(list) ==
  IssuesWithRuleId(list, "analysis-failure")
    \cup IssuesWithRuleId(list, "file-size-limit")

\* what the platform phase reports on the document alone
StructureIssues(in, platform) ==
  runPlatformAnalysis_structure([issues |-> <<>>], in, platform).issues

Contains(list, x) == \E k \in 1..Len(list) : list[k] = x

\* C13: an input error (empty text, text longer than config.maxFileSize,
\* root that is not an object) is surfaced as a single issue of high
\* severity in the result, and the remaining analysis phases still run on
\* the input: what the platform phase reports on the document is in the
\* result.
C13_InputErrorSurfaced ==
  (/\ pc[1] = "done"
   /\ result[1].outcome = "resolved"
   /\ frame[1].platform # ""
   /\ \/ EmptyText(frame[1])
      \/ Oversized(frame[1], config[1])
      \/ NonObjectRoot(frame[1])) =>
    /\ Cardinality(InputErrorIssues(result[1].issues)) = 1
    /\ \A k \in InputErrorIssues(result[1].issues) :
         result[1].issues[k].severity \in {"critical", "error"}
    /\ \A k \in 1..Len(StructureIssues(frame[1].in, frame[1].platform)) :
         Contains(result[1].issues,
                  StructureIssues(frame[1].in, frame[1].platform)[k])

\* the findings of the list that the rule produced (its error issue included)
FindingsOf(list, rule) == { k \in 1..Len(list) : list[k].rule = rule }

ResultFindingsOf(r, rule) ==
  Cardinality(FindingsOf(r.issues, rule))
    + Cardinality(FindingsOf(r.optimizations, rule))
    + Cardinality(FindingsOf(r.securityReport.vulnerabilities, rule))

\* C14: config.strictMode selects the level of the rules: analyze runs
\* executeRules at level expert when strictMode is true and at level senior
\* otherwise, so the rule of level expert (ComplianceRule) is invoked, and
\* contributes findings to the result, only when strictMode is true.
C14_StrictModeSelectsLevel ==
  /\ PastEnhanced =>
        /\ enhanced[1].invoked =
             ApplicableIds(frame[1].platform,
                           IF config[1].strictMode THEN "expert" ELSE "senior")
        /\ WasInvoked(ComplianceRule.id) <=> config[1].strictMode
  /\ (pc[1] = "done" /\ result[1].outcome = "resolved") =>
        /\ ResultFindingsOf(result[1], ComplianceRule.id) > 0
             => config[1].strictMode
        /\ (/\ config[1].strictMode
            /\ PassedValidation(frame[1])
            /\ ComplianceRule.id \in frame[1].in.hits)
             => ResultFindingsOf(result[1], ComplianceRule.id) > 0

\* a call with strictMode, on a text the expert rule reports on, has returned
\* the findings of that rule
C14_Witness ==
  /\ pc[1] = "done"
  /\ result[1].outcome = "resolved"
  /\ config[1].strictMode
  /\ frame[1].in = GitHubInput
  /\ frame[1].platform = "github-actions"
  /\ WasInvoked(ComplianceRule.id)
  /\ ResultFindingsOf(result[1], ComplianceRule.id) = 2

\* C15: the isolation of a custom rule is that of executeRules: the issue
\* created for a custom rule whose check raises has severity error, category
\* linting and the rule id "rule-error-" followed by the id of the rule.
C15_CustomRuleErrorId ==
  (pc[1] = "done" /\ PassedValidation(frame[1])
   /\ result[1].outcome = "resolved") =>
    \A k \in 1..Len(config[1].customRules) :
      config[1].customRules[k].throws =>
        LET errors == RuleErrorIssues(result[1].issues,
                                      config[1].customRules[k].id)
        IN /\ Cardinality(errors) = 1
           /\ \A i \in errors :
                /\ result[1].issues[i].severity = "error"
                /\ result[1].issues[i].category = "linting"

(***************************************************************************)
(* Claims about the aggregates of a result.                                *)
(***************************************************************************)
\* C16: the overallScore of the security report is max(0, 100 - 10 * n), n
\* the number of vulnerabilities collected, whatever their severities and
\* whatever the issues: it is not the main score.
C16_SecurityReportScore ==
  pc[1] = "done" =>
    LET n == Len(securityVulnerabilities[1])
    IN /\ result[1].securityReport.vulnerabilities
            = securityVulnerabilities[1]
       /\ result[1].securityReport.overallScore =
            (IF n >= 10 THEN 0 ELSE 100 - 10 * n)

\* eleven vulnerabilities of low severity and an issue: the report's score
\* is clamped to 0 although the main score is not
C16_Witness ==
  /\ pc[1] = "done"
  /\ Len(securityVulnerabilities[1]) = 11
  /\ issues[1] # <<>>
  /\ result[1].securityReport.overallScore = 0
  /\ result[1].score = 20

\* C17: the cost estimation of every result is the linear model: compute is
\* 10 * jobCount + 2 * stepCount, storage 5, network 2, currentMonthlyCost
\* compute + 7, optimizedMonthlyCost 70% of it, and savingsPercentage the
\* rounded share of the savings, which is 30 for every document.
C17_CostEstimation ==
  \A c \in DOMAIN pc :
    (pc[c] = "done" /\ result[c].outcome = "resolved") =>
      LET cost == result[c].costEstimation
      IN /\ cost.compute >= 0
         /\ cost.storage = 5
         /\ cost.network = 2
         /\ cost.currentMonthlyCost = cost.compute + 7
         /\ cost.optimizedMonthlyCost = 7 * cost.currentMonthlyCost
         /\ cost.savingsPercentage = 30

\* the order in which the entries are pushed
RecommendationOrder ==
  << "Fix Critical Issues", "Resolve Error Issues",
     "Improve Security Posture", "Optimize Performance" >>

\* priority, effort and impact of the entry at each place of the order
RecommendationConstants ==
  << <<"high", "high", "high">>, <<"high", "medium", "high">>,
     <<"high", "low", "high">>, <<"medium", "low", "high">> >>

\* the place of a title in the order, 0 for a title that is not in it
PlaceOf(title) ==
  IF \E k \in 1..4 : RecommendationOrder[k] = title
  THEN CHOOSE k \in 1..4 : RecommendationOrder[k] = title
  ELSE 0

Recommended(r, k) ==
  \E j \in 1..Len(r.recommendations) :
    r.recommendations[j].title = RecommendationOrder[k]

\* C18: the recommendations of a result are at most four entries in the
\* order critical, error, security, performance: the first is there exactly
\* when an issue has severity critical, the second when one has severity
\* error, the third when one has category security, the fourth when an
\* optimization has impact high; priority, effort and impact of an entry
\* are fixed by its place and not by the findings.
C18_Recommendations ==
  pc[1] = "done" =>
    LET recs == result[1].recommendations
    IN /\ Len(recs) <= 4
       /\ \A j \in 1..Len(recs) : PlaceOf(recs[j].title) # 0
       /\ \A j \in 1..Len(recs) : \A l \in 1..Len(recs) :
            j < l => PlaceOf(recs[j].title) < PlaceOf(recs[l].title)
       /\ Recommended(result[1], 1) <=>
            \E i \in 1..Len(issues[1]) : issues[1][i].severity = "critical"
       /\ Recommended(result[1], 2) <=>
            \E i \in 1..Len(issues[1]) : issues[1][i].severity = "error"
       /\ Recommended(result[1], 3) <=>
            \E i \in 1..Len(issues[1]) : issues[1][i].category = "security"
       /\ Recommended(result[1], 4) <=>
            \E i \in 1..Len(optimizations[1]) :
              optimizations[1][i].impact = "high"
       /\ \A j \in 1..Len(recs) :
            << recs[j].priority, recs[j].effort, recs[j].impact >>
              = RecommendationConstants[PlaceOf(recs[j].title)]

\* a critical issue, an error issue of category security and an optimization
\* of high impact: all four entries
C18_Witness ==
  /\ pc[1] = "done"
  /\ Len(result[1].recommendations) = 4
  /\ \E i \in 1..Len(issues[1]) : issues[1][i].severity = "critical"
  /\ \E i \in 1..Len(issues[1]) :
       issues[1][i].severity = "error" /\ issues[1][i].category = "security"
  /\ \E i \in 1..Len(optimizations[1]) : optimizations[1][i].impact = "high"

\* the names job i needs
DependenciesOf(doc, i) == doc.jobs[i].needs.names

\* how many lines of the graph are x
LinesEqual(graph, x) ==
  Cardinality({k \in 1..Len(graph.lines) : graph.lines[k] = x})

\* job i is in a line of the graph, as the node or at an end of an edge
Appears(graph, i) ==
  \E k \in 1..Len(graph.lines) :
    graph.lines[k].job = i \/ graph.lines[k].dep = i

\* C19: for github-actions and more than one job the graph holds exactly one
\* edge for each job a job needs (needs a name or a list of names) and one
\* node for each job without dependencies, so that every job appears in it;
\* a document of one job, and any other platform, give a fixed placeholder.
C19_DependencyGraph ==
  pc[1] = "done" =>
    LET doc == parsedYAML[1]
        graph == result[1].dependencyGraph
        n == Len(doc.jobs)
    IN IF result[1].platform = "github-actions" /\ n > 1
       THEN /\ graph.placeholder = ""
            /\ \A i \in 1..n :
                 /\ \A d \in 1..n :
                      LinesEqual(graph, Edge(d, i)) =
                        Cardinality({k \in 1..Len(DependenciesOf(doc, i)) :
                                       DependenciesOf(doc, i)[k] = d})
                 /\ LinesEqual(graph, Node(i)) =
                      (IF DependenciesOf(doc, i) = <<>> THEN 1 ELSE 0)
                 /\ Appears(graph, i)
       ELSE /\ graph.lines = <<>>
            /\ graph.placeholder \in
                 {"A[Single Job] --> B[Complete]", "A[Analysis] --> B[Complete]"}

(***************************************************************************)
(* Claims about masking (SpecMask).                                        *)
(***************************************************************************)
\* C20: a masked secret is as long as the secret; a secret of at most 8
\* characters is masked to '*' only; of a longer one exactly the first 4 and
\* the last 4 characters are kept and all between them are '*'; the engine
\* and HardcodedSecretsRule mask every secret to the same text.
C20_Masking ==
  pc[1] = "done" =>
    LET secret == frame[1].secret
        masked == result[1].engine
        length == Len(secret)
    IN /\ result[1].rule = masked
       /\ Len(masked) = length
       /\ \A k \in 1..length :
            masked[k] = (IF length > 8 /\ (k <= 4 \/ k > length - 4)
                         THEN secret[k] ELSE "*")

\* a secret of 9 letters: four letters, one '*', four letters
C20_Witness ==
  /\ pc[1] = "done"
  /\ Len(frame[1].secret) = 9
  /\ \A k \in 1..9 : frame[1].secret[k] = "a"
  /\ result[1].engine = << "a", "a", "a", "a", "*", "a", "a", "a", "a" >>
  /\ result[1].rule = result[1].engine

(***************************************************************************)
(* Claims about parallelization.                                           *)
(***************************************************************************)
\* the optimizations of a result that note good parallelization
GoodParallelization(r) ==
  {k \in 1..Len(r.optimizations) :
     r.optimizations[k].title \in
       {"Good parallelization", "Good parallelization detected"}}

\* C21: a github-actions document of 5 jobs, none with needs, analyzed with
\* the default configuration: the parallelizationScore of the metrics is 100
\* and the result holds one optimization that notes good parallelization.
C21_FiveIndependentJobs ==
  (/\ pc[1] = "done"
   /\ frame[1].in = FiveJobsInput
   /\ frame[1].platform = "github-actions"
   /\ config[1] = constructorDefaults) =>
    /\ result[1].outcome = "resolved"
    /\ result[1].metrics.parallelizationScore = 100
    /\ Cardinality(GoodParallelization(result[1])) = 1

\* C30: the metrics agree on the independent jobs: with n > 1 jobs the
\* parallelizationScore is 100 * parallelizableJobs / n, rounded, also when a
\* job has an empty list of needs; with n <= 1 jobs it is 100.
C30_MetricsAgree ==
  (pc[1] = "done" /\ result[1].outcome = "resolved") =>
    LET n == Len(parsedYAML[1].jobs)
        metrics == result[1].metrics
    IN metrics.parallelizationScore =
         (IF n > 1
          THEN (200 * metrics.parallelizableJobs + n) \div (2 * n)
          ELSE 100)

(***************************************************************************)
(* Claims about the scans of the raw text.                                 *)
(***************************************************************************)
\* the vulnerabilities the scan pushed for line i
EntropyFindings(i) ==
  {k \in 1..Len(securityVulnerabilities[1]) :
     securityVulnerabilities[1][k].line = i}

\* C22: scanForExposedSecrets pushes a "High Entropy String" vulnerability,
\* of severity high and with the 1-based number of the line, only for a word
\* of at least 20 characters and entropy at least 4.5 on a line that is not
\* a comment and does not hold "${"; a comment line and a line with "${"
\* give no finding even with such a word, and an empty line gives none.
C22_EntropyLineFilter ==
  pc[1] = "done" =>
    LET lines == frame[1].lines
        found == securityVulnerabilities[1]
    IN /\ \A k \in 1..Len(found) :
            /\ found[k].title = "High Entropy String"
            /\ found[k].severity = "high"
            /\ found[k].line \in 1..Len(lines)
            /\ ~lines[found[k].line].comment
            /\ ~lines[found[k].line].marker
            /\ \E w \in 1..Len(lines[found[k].line].parts) :
                 /\ lines[found[k].line].parts[w] = found[k].word
                 /\ found[k].word.length >= 20
                 /\ found[k].word.entropy >= 450
       /\ \A i \in 1..Len(lines) :
            (lines[i].comment \/ lines[i].marker
             \/ lines[i].parts = << EmptyWord >>) => EntropyFindings(i) = {}

\* a comment line with a secret, then a plain line with the same secret: the
\* only finding is that of line 2
C22_Witness ==
  /\ pc[1] = "done"
  /\ frame[1].lines = << Line(FALSE, TRUE, << SecretWord >>),
                         Line(FALSE, FALSE, << SecretWord >>) >>
  /\ securityVulnerabilities[1] = << HighEntropyString(SecretWord, 2) >>

\* C27: checkInsecurePractices pushes exactly one vulnerability for every
\* pattern and line such that the line matches the pattern, whether or not
\* earlier lines matched it: two equal lines that pipe curl into bash give
\* two vulnerabilities, with the numbers of the two lines.
C27_OnePerMatchingLine ==
  pc[1] = "done" =>
    LET lines == frame[1].lines
        found == securityVulnerabilities[1]
    IN /\ \A k \in 1..Len(found) : found[k].line \in 1..Len(lines)
       /\ \A p \in 1..Len(insecurePractices) : \A i \in 1..Len(lines) :
            Cardinality({k \in 1..Len(found) :
                           /\ found[k].title = insecurePractices[p].title
                           /\ found[k].line = i})
              = (IF lines[i][p] # <<>> THEN 1 ELSE 0)

\* line i is scanned by the rule
Scanned(rule, lines, i) ==
  ~lines[i].comment /\ ~(rule = "hardcoded" /\ lines[i].dollar)

\* the places of the calls op for the k-th match of signature g in line i
PlacesOf(calls, op, g, i, k) ==
  {c \in 1..Len(calls) : calls[c] = Called(op, g, i, k)}

\* C23: in the checks of HardcodedSecretsRule, DangerousCommandsRule and
\* PermissionsRule the validator of a signature is called on every match
\* before anything is emitted for it, and a match that fails its validator
\* is dropped: nothing is appended for it to any of the three sinks.
C23_ValidatorBeforeEmit ==
  pc[1] = "done" =>
    LET rule == result[1].rule
        calls == result[1].calls
        lines == frame[1].lines
        found == enhanced[1].securityVulnerabilities
    IN /\ enhanced[1].issues = <<>>
       /\ enhanced[1].optimizations = <<>>
       /\ Len(found) =
            Cardinality({c \in 1..Len(calls) : calls[c].op = "add"})
       /\ \A g \in 1..Len(signatures[rule]) : \A i \in 1..Len(lines) :
            \A k \in 1..Len(lines[i].matches[g]) :
              (signatures[rule][g].validator /\ Scanned(rule, lines, i)) =>
                /\ Cardinality(PlacesOf(calls, "validator", g, i, k)) = 1
                /\ \A a \in PlacesOf(calls, "add", g, i, k) :
                     \E v \in PlacesOf(calls, "validator", g, i, k) : v < a
                /\ ~lines[i].matches[g][k].valid =>
                     /\ PlacesOf(calls, "add", g, i, k) = {}
                     /\ \A f \in 1..Len(found) :
                          ~(found[f].g = g /\ found[f].line = i
                            /\ found[f].k = k)

\* a line with a match that fails its validator and one that passes it: the
\* validator is called for both, and only the second is emitted
C23_Witness ==
  /\ pc[1] = "done"
  /\ result[1].rule = "dangerous"
  /\ frame[1].lines =
       << SourceLine(FALSE, FALSE,
                     << << Match(FALSE, TRUE), Match(TRUE, TRUE) >>, <<>> >>) >>
  /\ result[1].calls = << Called("validator", 1, 1, 1),
                          Called("validator", 1, 1, 2),
                          Called("add", 1, 1, 2) >>
  /\ Len(enhanced[1].securityVulnerabilities) = 1

(***************************************************************************)
(* Claims about the platform phase of analyze (SpecAnalyze).               *)
(***************************************************************************)
\* the list holds one issue of the rule id, of the severity, when expected,
\* and none otherwise
OneIff(list, ruleId, severity, expected) ==
  /\ Cardinality(IssuesWithRuleId(list, ruleId)) = (IF expected THEN 1 ELSE 0)
  /\ \A k \in IssuesWithRuleId(list, ruleId) : list[k].severity = severity

\* C24: the structure validation of the platform adds its findings through
\* the sink of the engine: for GitHub Actions an error "Missing trigger
\* events" exactly when `on` is falsy and a warning "Missing workflow name"
\* exactly when `name` is falsy; for Bitbucket an error "Missing pipelines
\* section" exactly when `pipelines` is falsy; for GitLab an error "No stages
\* or jobs defined" exactly when there are no stages and no entry with a
\* script.
C24_StructureValidation ==
  (/\ pc[1] = "done"
   /\ PassedValidation(frame[1])
   /\ result[1].outcome = "resolved") =>
    LET doc == frame[1].in.doc
        platform == frame[1].platform
        list == result[1].issues
    IN /\ OneIff(list, "gh-missing-triggers", "error",
                 platform = "github-actions" /\ ~doc.on)
       /\ OneIff(list, "gh-missing-name", "warning",
                 platform = "github-actions" /\ ~doc.name)
       /\ OneIff(list, "bb-missing-pipelines", "error",
                 platform = "bitbucket-pipelines" /\ doc.pipelines = 0)
       /\ OneIff(list, "gl-no-stages-jobs", "error",
                 platform = "gitlab-ci" /\ doc.stages = 0
                 /\ doc.scriptJobs = 0)

\* a workflow with triggers and without a name, and a Bitbucket document
\* with a pipelines section
C24_Witness ==
  /\ pc[1] = "done"
  /\ result[1].outcome = "resolved"
  /\ \/ /\ frame[1].in = MixedInput
        /\ frame[1].platform = "github-actions"
        /\ IssuesWithRuleId(result[1].issues, "gh-missing-name") # {}
        /\ IssuesWithRuleId(result[1].issues, "gh-missing-triggers") = {}
     \/ /\ frame[1].in = BitbucketInput
        /\ frame[1].platform = "bitbucket-pipelines"
        /\ IssuesWithRuleId(result[1].issues, "bb-missing-pipelines") = {}

\* the analyzer of the platform raises on the input of the call: only the
\* analyzer of GitHub Actions reads the jobs, and it raises on a null job
\* and on steps that are not a list
AnalyzerRaises(f) ==
  /\ PassedValidation(f)
  /\ f.platform = "github-actions"
  /\ \E i \in 1..Len(f.in.doc.jobs) :
       \/ f.in.doc.jobs[i].null
       \/ f.in.doc.jobs[i].steps > 0 /\ f.in.doc.jobs[i].length = NaN

PastPlatform ==
  pc[1] \in {"common", "enhanced", "security", "performance", "cost",
             "finish", "done"}

HasTitle(list, title) == \E k \in 1..Len(list) : list[k].title = title

\* C25: when the analyzer of the platform raises during analyze, exactly one
\* issue of severity error with the rule id "<platform>-analysis-error" is
\* added, and the later phases (common analysis, enhanced rules, security,
\* performance, cost, custom rules) still run before the result is built.
C25_PlatformErrorIsolated ==
  /\ (PastPlatform /\ frame[1].engine = 1) =>
       OneIff(issues[1], frame[1].platform \o "-analysis-error", "error",
              AnalyzerRaises(frame[1]))
  /\ (pc[1] = "done" /\ AnalyzerRaises(frame[1])) =>
       LET traits == frame[1].in.raw.traits
       IN /\ "http" \in traits =>
               IssuesWithRuleId(issues[1], "insecure-http-urls") # {}
          /\ enhanced[1].invoked =
               ApplicableIds(frame[1].platform,
                             IF config[1].strictMode THEN "expert" ELSE "senior")
          /\ (config[1].enableSecurityAnalysis /\ "curlBash" \in traits) =>
               HasTitle(securityVulnerabilities[1],
                        "Piping remote content to shell")
          /\ (config[1].enablePerformanceAnalysis /\ "npmInstall" \in traits
              /\ ~hasNullJob(frame[1].in.doc)) =>
               HasTitle(optimizations[1], "Use npm ci for faster installs")
          /\ (config[1].enableCostAnalysis /\ "macos" \in traits) =>
               HasTitle(optimizations[1], "Consider cost-effective runners")
          /\ \A id \in CustomRuleIds(config[1]) :
               FindingsOf(issues[1], id) # {}

\* the analyzer raised on the steps of a job, and the result holds the one
\* issue of the platform and what every later phase found
C25_Witness ==
  /\ pc[1] = "done"
  /\ frame[1].in = MappingStepsInput
  /\ frame[1].platform = "github-actions"
  /\ result[1].outcome = "resolved"
  /\ config[1].enableSecurityAnalysis /\ config[1].enablePerformanceAnalysis
  /\ config[1].enableCostAnalysis /\ config[1].customRules # <<>>
  /\ Cardinality(IssuesWithRuleId(result[1].issues,
                                  "github-actions-analysis-error")) = 1
  /\ HasTitle(result[1].optimizations, "Consider cost-effective runners")
  /\ HasTitle(result[1].securityReport.vulnerabilities,
              "Piping remote content to shell")

(***************************************************************************)
(* Claims about the order of executeRules (SpecRules).                     *)
(***************************************************************************)
\* the place of a rule in the registration order, by its id
RegisteredAt(id) ==
  CHOOSE i \in 1..Len(initializeRules) : initializeRules[i].id = id

\* the findings of a stream follow the registration order of their rules
InRegistrationOrder(list) ==
  \A k, l \in 1..Len(list) :
    k < l => RegisteredAt(list[k].rule) <= RegisteredAt(list[l].rule)

\* C26: within one executeRules call each rule that passes the platform and
\* level filters has its check invoked exactly once, the rules are visited in
\* registration order, and in each of the three output streams the findings
\* of an earlier-registered rule precede those of every later-registered one.
C26_RegistrationOrder ==
  pc[1] = "done" =>
    /\ enhanced[1].invoked = ApplicableIds(frame[1].platform, frame[1].level)
    /\ InRegistrationOrder(enhanced[1].issues)
    /\ InRegistrationOrder(enhanced[1].optimizations)
    /\ InRegistrationOrder(enhanced[1].securityVulnerabilities)

\* a call that filtered some rules out and left findings of several rules in
\* every stream, a rule error among the issues
C26_Witness ==
  /\ pc[1] = "done"
  /\ result[1].outcome = "returned"
  /\ Len(enhanced[1].invoked) \in 2..(Len(initializeRules) - 1)
  /\ \E k, l \in 1..Len(result[1].issues) :
       /\ k < l
       /\ result[1].issues[k].ruleId = "rule-error-hardcoded-secrets"
       /\ RegisteredAt(result[1].issues[k].rule)
            < RegisteredAt(result[1].issues[l].rule)
  /\ \E k, l \in 1..Len(result[1].optimizations) :
       result[1].optimizations[k].rule # result[1].optimizations[l].rule
  /\ \E k, l \in 1..Len(result[1].securityVulnerabilities) :
       result[1].securityVulnerabilities[k].rule
         # result[1].securityVulnerabilities[l].rule

(***************************************************************************)
(* Claims about the security switch of analyze (SpecAnalyze).              *)
(***************************************************************************)
\* C28: when config.enableSecurityAnalysis is false, the result of analyze
\* holds no vulnerability: securityReport.vulnerabilities is empty,
\* securityReport.overallScore is 100 and the score carries no deduction for
\* vulnerabilities.
C28_SecurityDisabled ==
  (/\ pc[1] = "done"
   /\ result[1].outcome = "resolved"
   /\ ~config[1].enableSecurityAnalysis) =>
    /\ result[1].securityReport.vulnerabilities = <<>>
    /\ result[1].securityReport.overallScore = 100
    /\ result[1].score = clampScore(deductIssues(100, result[1].issues, 1))

(***************************************************************************)
(* Claims about the score of the results of analyzeCICD (SpecCICD).        *)
(***************************************************************************)
\* the vulnerabilities of a result, none when it has no security report
ReportedVulnerabilities(r) ==
  IF "securityReport" \in DOMAIN r THEN r.securityReport.vulnerabilities
  ELSE <<>>

\* C29: the score of every result of analyzeCICD equals the score formula
\* (100 minus the deductions by severity, clamped to 0..100) applied to the
\* issues and the reported vulnerabilities of that same result, on the normal
\* path and on the failure path alike.
C29_ScoreConsistent ==
  \A c \in Calls :
    (pc[c] = "done" /\ result[c].outcome = "resolved") =>
      result[c].score =
        clampScore(deductVulnerabilities(deductIssues(100, result[c].issues, 1),
                                         ReportedVulnerabilities(result[c]),
                                         1))

====
